---------------------------- MODULE Spec2Model ----------------------------
(***************************************************************************)
(* Model of the input subsystem of naev (src/src/input.c): the keybinding  *)
(* table, the event filters (keyboard, joystick axis / button / hat), the  *)
(* action dispatcher input_key, the per-frame tick input_update and the    *)
(* clicks of the mouse; and of the ship statistics (src/src/shipstats.h).  *)
(*                                                                         *)
(* Conventions.                                                            *)
(*  - A modifier mask is the set of the bit positions that are set in the  *)
(*    C integer (NMOD_ANY = 0xFFFF is 0..15); `&` is \cap, `|` is \cup.    *)
(*  - The doubles of input_key are scaled by 32767: an analog magnitude    *)
(*    FABS(value/32767.) is the integer |value|, the digital 1. is         *)
(*    AXIS_MAX and the `-1.` that marks a digital input stays -1.          *)
(*  - Every operation records what it returned and which collaborators it  *)
(*    called in the history variables ret, warned, ev and calls; they are  *)
(*    overwritten by the next operation.                                   *)
(***************************************************************************)
EXTENDS Integers, Sequences, FiniteSets, TLC

VARIABLES
    input_keybinds,     \* the keybinding table (Keybind[input_numbinds])
    lastSet,            \* history: arguments of the latest input_setKeybind
    ret,                \* history: the latest registry call and its result
    warned,             \* history: WARN lines of the latest registry call
    conf,               \* conf.repeat_delay, .repeat_freq, .afterburn_sens
    ctx,                \* what the guards of input_key read from the game
    now,                \* SDL_GetTicks(), in ms
    repeat_key,         \* table index of the key to repeat, -1 for none
    repeat_keyTimer,    \* time of the press that is repeated
    repeat_keyCounter,  \* repeats generated so far
    input_accelLast,    \* time of the latest digital accel press
    input_accelButton,  \* whether accel is pressed
    input_mouseTimer,   \* ms left before the cursor is hidden again
    input_mouseCounter, \* show / hide counter of the cursor
    cursor,             \* SDL_ShowCursor state
    player_mouse,       \* player.mousex, player.mousey (screen position)
    playerFlags,        \* player_setFlag / player_rmFlag / player_isFlag
    player_left,        \* turn rates (player.c), scaled by AXIS_MAX
    player_right,
    player_speed,       \* player.speed
    paused,             \* pause.c
    hooked,             \* history: actions the "input" hook last told pressed
    ev,                 \* history: the latest event or tick handled
    calls,              \* history: the input_key calls it made, in order
    mouse_doubleclick,  \* conf.mouse_doubleclick, in microseconds
    scene,              \* what the clicks read from the rest of the game
    player_target,      \* player.p->target
    nav_planet,         \* player.p->nav_planet
    nav_hyperspace,     \* player.p->nav_hyperspace
    nav_asteroid,       \* player.p->nav_asteroid (with its field)
    input_mouseClickLast, \* time of the latest click, in ms
    input_lastClicked,  \* pointer to the item clicked last
    click,              \* history: the latest mouse button event
    pilot_stats,        \* a ShipStats aggregate (shipstats.h)
    ssop                \* history: the latest operation on pilot_stats

registryVars == <<input_keybinds, lastSet, ret, warned>>
envVars == <<conf, ctx, now>>
dispatchVars ==
    <<repeat_key, repeat_keyTimer, repeat_keyCounter, input_accelLast,
      input_accelButton, playerFlags, player_left, player_right, player_speed,
      paused, hooked>>
mouseVars == <<input_mouseTimer, input_mouseCounter, cursor, player_mouse>>
eventVars == <<ev, calls>>
inputVars == <<envVars, dispatchVars, mouseVars, eventVars>>
clickVars ==
    <<mouse_doubleclick, scene, player_target, nav_planet, nav_hyperspace,
      nav_asteroid, input_mouseClickLast, input_lastClicked, click>>
statVars == <<pilot_stats, ssop>>
vars == <<registryVars, inputVars, clickVars, statVars>>

(***************************************************************************)
(* Program constants.                                                      *)
(***************************************************************************)

\* keybind_info[i][0]: the action names, in table order.
keybind_info ==
    << "accel", "left", "right", "reverse",
       "target_next", "target_prev", "target_nearest", "target_nextHostile",
       "target_prevHostile", "target_hostile", "target_clear",
       "primary", "face", "board",
       "secondary", "weapset1", "weapset2", "weapset3", "weapset4",
       "weapset5", "weapset6", "weapset7", "weapset8", "weapset9", "weapset0",
       "e_targetNext", "e_targetPrev", "e_attack", "e_hold", "e_return",
       "e_clear",
       "autonav", "target_planet", "land", "thyperspace", "starmap", "jump",
       "overlay", "mousefly", "autobrake",
       "log_up", "log_down", "hail", "autohail",
       "mapzoomin", "mapzoomout", "screenshot", "togglefullscreen", "pause",
       "speed", "menu", "info", "console",
       "switchtab1", "switchtab2", "switchtab3", "switchtab4", "switchtab5",
       "switchtab6", "switchtab7", "switchtab8", "switchtab9", "switchtab0" >>

input_numbinds == Len(keybind_info)

KeybindNames == { keybind_info[i] : i \in 1..input_numbinds }

\* KeybindType
KeybindTypes ==
    { "KEYBIND_NULL", "KEYBIND_KEYBOARD", "KEYBIND_JAXISPOS",
      "KEYBIND_JAXISNEG", "KEYBIND_JBUTTON", "KEYBIND_JHAT_UP",
      "KEYBIND_JHAT_DOWN", "KEYBIND_JHAT_LEFT", "KEYBIND_JHAT_RIGHT" }

\* The kinds input_keyAlreadyBound treats as joystick kinds.
JoyTypes == KeybindTypes \ { "KEYBIND_NULL", "KEYBIND_KEYBOARD" }

\* Naev modifier masks, as sets of bit positions.
NMOD ==
    [ NONE |-> {}, SHIFT |-> {0}, CTRL |-> {1}, ALT |-> {2}, META |-> {3},
      ANY |-> 0..15 ]

\* SDL modifier bits (SDL_Keymod), as sets of bit positions.
KMOD ==
    [ NONE |-> {}, LSHIFT |-> {0}, RSHIFT |-> {1}, LCTRL |-> {6},
      RCTRL |-> {7}, LALT |-> {8}, RALT |-> {9}, LGUI |-> {10},
      RGUI |-> {11}, NUM |-> {12}, CAPS |-> {13}, MODE |-> {14} ]

\* SDL key codes used by the default layouts (SDLK_SCANCODE_MASK = 2^30).
ScanKey(sc) == 1073741824 + sc

SDLK ==
    [ UNKNOWN |-> 0, BACKSPACE |-> 8, TAB |-> 9, ESCAPE |-> 27, SPACE |-> 32,
      n0 |-> 48, n1 |-> 49, n2 |-> 50, n3 |-> 51, n4 |-> 52, n5 |-> 53,
      n6 |-> 54, n7 |-> 55, n8 |-> 56, n9 |-> 57, BACKQUOTE |-> 96,
      a |-> 97, b |-> 98, c |-> 99, d |-> 100, e |-> 101, h |-> 104,
      i |-> 105, j |-> 106, l |-> 108, m |-> 109, n |-> 110, p |-> 112,
      q |-> 113, r |-> 114, s |-> 115, t |-> 116, w |-> 119, x |-> 120,
      y |-> 121, DELETE |-> 127,
      F2 |-> ScanKey(59), F11 |-> ScanKey(68), PAUSE |-> ScanKey(72),
      INSERT |-> ScanKey(73), HOME |-> ScanKey(74), PAGEUP |-> ScanKey(75),
      END |-> ScanKey(77), PAGEDOWN |-> ScanKey(78), RIGHT |-> ScanKey(79),
      LEFT |-> ScanKey(80), DOWN |-> ScanKey(81), UP |-> ScanKey(82),
      KP_MULTIPLY |-> ScanKey(85), KP_MINUS |-> ScanKey(86),
      KP_PLUS |-> ScanKey(87), LSHIFT |-> ScanKey(225) ]

\* What a lookup that finds nothing returns: (SDL_Keycode)-1 and NULL.
KeyNotFound == 0 - 1
NullName == "NULL"

(***************************************************************************)
(* Inputs of the registry operations.                                      *)
(***************************************************************************)

\* Names passed to input_setKeybind: one table name and one that is not
\* in the table; the lookups and toggles also name a second table entry.
BindNames == { "accel" }
UnknownNames == { "bogus" }
QueryNames == BindNames \cup UnknownNames \cup { "target_next" }

\* Keys / axis / button numbers and masks passed to the registry operations.
BindKeys == { 0, SDLK.t }
BindMods == { NMOD.NONE, NMOD.CTRL, NMOD.ANY }

(***************************************************************************)
(* input_init                                                              *)
(***************************************************************************)

input_init ==
    [ i \in 1..input_numbinds |->
        [ disabled |-> FALSE, name |-> keybind_info[i],
          type |-> "KEYBIND_NULL", key |-> SDLK.UNKNOWN, mod |-> NMOD.NONE ] ]

(***************************************************************************)
(* Registry operations, as functions of the table.                         *)
(***************************************************************************)

Max(S) == CHOOSE x \in S : \A y \in S : y <= x

\* for (i=0; i<input_numbinds; i++) if (strcmp(keybind, kb[i].name)==0):
\* the lowest index whose entry is named keybind, 0 if there is none.
FindName(kb, keybind) ==
    LET S == { i \in 1..input_numbinds : kb[i].name = keybind } IN
    IF S = {} THEN 0 ELSE CHOOSE x \in S : \A y \in S : x <= y

\* The mask stored as it is given, whatever the kind.
StoredModAsGiven(type, mod) == mod

\* input_keybinds[i].mod = (type==KEYBIND_KEYBOARD) ? mod : NMOD_ANY
StoredMod(type, mod) ==
    IF type = "KEYBIND_KEYBOARD" THEN mod ELSE NMOD.ANY

\* The three assignments of input_setKeybind to the entry it found.
Bound(k, type, key, mod) ==
    [ k EXCEPT !.type = type, !.key = key, !.mod = StoredMod(type, mod) ]

\* input_setKeybind that overwrites the first entry when the name is unknown.
SetKeybindMissWritesFirst(kb, keybind, type, key, mod) ==
    LET i == FindName(kb, keybind) IN
    LET j == IF i = 0 THEN 1 ELSE i IN
    [ kb |-> [ kb EXCEPT ![j] = Bound(kb[j], type, key, mod) ],
      warn |-> IF i = 0 THEN << "Unable to set keybinding" >> ELSE << >> ]

input_setKeybind(kb, keybind, type, key, mod) ==
    LET i == FindName(kb, keybind) IN
    IF i = 0
    THEN [ kb |-> kb, warn |-> << "Unable to set keybinding" >> ]
    ELSE [ kb |-> [ kb EXCEPT ![i] = Bound(kb[i], type, key, mod) ],
           warn |-> << >> ]

\* input_getKeybind; type0 and mod0 are what the caller's out-parameters
\* hold before the call (they are written only when the name is found).
input_getKeybind(kb, keybind, type0, mod0) ==
    LET i == FindName(kb, keybind) IN
    IF i = 0
    THEN [ key |-> KeyNotFound, type |-> type0, mod |-> mod0,
           warn |-> << "Unable to get keybinding" >> ]
    ELSE [ key |-> kb[i].key, type |-> kb[i].type, mod |-> kb[i].mod,
           warn |-> << >> ]

\* The loop body with the two masks compared for equality only.
AlreadyBoundHitNoAny(k, type, key, mod) ==
    IF k.type # type THEN FALSE
    ELSE IF key # k.key THEN FALSE
    ELSE IF type = "KEYBIND_KEYBOARD" THEN k.mod = mod
    ELSE type \in JoyTypes

\* The body of the loop of input_keyAlreadyBound: whether entry k makes
\* it return (the two `continue`s, then the switch on the type).
AlreadyBoundHit(k, type, key, mod) ==
    IF k.type # type THEN FALSE
    ELSE IF key # k.key THEN FALSE
    ELSE IF type = "KEYBIND_KEYBOARD"
    THEN k.mod = NMOD.ANY \/ mod = NMOD.ANY \/ k.mod = mod
    ELSE type \in JoyTypes

\* The loop returns at the first entry that hits: the lowest such index;
\* NULL when it runs to its end.
input_keyAlreadyBound(kb, type, key, mod) ==
    LET S == { j \in 1..input_numbinds :
                 AlreadyBoundHit(kb[j], type, key, mod) }
    IN IF S = {} THEN NullName
       ELSE keybind_info[CHOOSE x \in S : \A y \in S : x <= y]

input_enableAll(kb) ==
    [ i \in 1..input_numbinds |-> [ kb[i] EXCEPT !.disabled = FALSE ] ]

\* input_disableAll that unbinds what it disables.
DisableAllUnbinds(kb) ==
    [ i \in 1..input_numbinds |->
        [ kb[i] EXCEPT !.disabled = TRUE, !.type = "KEYBIND_NULL" ] ]

input_disableAll(kb) ==
    [ i \in 1..input_numbinds |-> [ kb[i] EXCEPT !.disabled = TRUE ] ]

input_toggleEnable(kb, key, enable) ==
    LET i == FindName(kb, key) IN
    IF i = 0 THEN kb ELSE [ kb EXCEPT ![i].disabled = ~enable ]

(***************************************************************************)
(* input_setDefault                                                        *)
(***************************************************************************)

KB(name, key, mod) == << name, "KEYBIND_KEYBOARD", key, mod >>
NB(name) == << name, "KEYBIND_NULL", SDLK.UNKNOWN, NMOD.NONE >>

\* The input_setKeybind calls of input_setDefault(wasd), in call order.
DefaultBinds(wasd) ==
    ( IF wasd
      THEN << KB("accel", SDLK.w, NMOD.ANY), KB("left", SDLK.a, NMOD.ANY),
              KB("right", SDLK.d, NMOD.ANY), KB("reverse", SDLK.s, NMOD.ANY) >>
      ELSE << KB("accel", SDLK.UP, NMOD.ANY), KB("left", SDLK.LEFT, NMOD.ANY),
              KB("right", SDLK.RIGHT, NMOD.ANY),
              KB("reverse", SDLK.DOWN, NMOD.ANY) >> )
    \o
    ( IF wasd
      THEN << KB("target_next", SDLK.e, NMOD.CTRL),
              KB("target_prev", SDLK.q, NMOD.CTRL),
              KB("target_nearest", SDLK.t, NMOD.ANY),
              NB("target_nextHostile"), NB("target_prevHostile"),
              KB("target_hostile", SDLK.r, NMOD.ANY),
              KB("target_clear", SDLK.c, NMOD.ANY) >>
      ELSE << KB("target_next", SDLK.t, NMOD.NONE),
              KB("target_prev", SDLK.t, NMOD.CTRL),
              KB("target_nearest", SDLK.n, NMOD.NONE),
              KB("target_nextHostile", SDLK.r, NMOD.CTRL),
              NB("target_prevHostile"),
              KB("target_hostile", SDLK.r, NMOD.NONE),
              KB("target_clear", SDLK.BACKSPACE, NMOD.ANY) >> )
    \o
    << KB("primary", SDLK.SPACE, NMOD.ANY),
       IF wasd THEN KB("face", SDLK.q, NMOD.NONE)
               ELSE KB("face", SDLK.a, NMOD.ANY),
       KB("board", SDLK.b, NMOD.NONE),
       KB("secondary", SDLK.LSHIFT, NMOD.ANY),
       KB("weapset1", SDLK.n1, NMOD.ANY), KB("weapset2", SDLK.n2, NMOD.ANY),
       KB("weapset3", SDLK.n3, NMOD.ANY), KB("weapset4", SDLK.n4, NMOD.ANY),
       KB("weapset5", SDLK.n5, NMOD.ANY), KB("weapset6", SDLK.n6, NMOD.ANY),
       KB("weapset7", SDLK.n7, NMOD.ANY), KB("weapset8", SDLK.n8, NMOD.ANY),
       KB("weapset9", SDLK.n9, NMOD.ANY), KB("weapset0", SDLK.n0, NMOD.ANY),
       NB("e_targetNext"), NB("e_targetPrev"),
       KB("e_attack", SDLK.END, NMOD.ANY), KB("e_hold", SDLK.INSERT, NMOD.ANY),
       KB("e_return", SDLK.DELETE, NMOD.ANY),
       KB("e_clear", SDLK.HOME, NMOD.ANY),
       KB("autonav", SDLK.j, NMOD.CTRL),
       KB("target_planet", SDLK.p, NMOD.NONE), KB("land", SDLK.l, NMOD.NONE),
       KB("thyperspace", SDLK.h, NMOD.NONE), KB("starmap", SDLK.m, NMOD.NONE),
       KB("jump", SDLK.j, NMOD.NONE), KB("overlay", SDLK.TAB, NMOD.ANY),
       KB("mousefly", SDLK.x, NMOD.CTRL), KB("autobrake", SDLK.s, NMOD.CTRL),
       KB("log_up", SDLK.PAGEUP, NMOD.ANY),
       KB("log_down", SDLK.PAGEDOWN, NMOD.ANY),
       KB("hail", SDLK.y, NMOD.NONE), KB("autohail", SDLK.y, NMOD.CTRL),
       KB("mapzoomin", SDLK.KP_PLUS, NMOD.ANY),
       KB("mapzoomout", SDLK.KP_MINUS, NMOD.ANY),
       KB("screenshot", SDLK.KP_MULTIPLY, NMOD.ANY),
       KB("togglefullscreen", SDLK.F11, NMOD.ANY),
       KB("pause", SDLK.PAUSE, NMOD.ANY),
       KB("speed", SDLK.BACKQUOTE, NMOD.ANY),
       KB("menu", SDLK.ESCAPE, NMOD.ANY), KB("info", SDLK.i, NMOD.NONE),
       KB("console", SDLK.F2, NMOD.ANY),
       KB("switchtab1", SDLK.n1, NMOD.ALT), KB("switchtab2", SDLK.n2, NMOD.ALT),
       KB("switchtab3", SDLK.n3, NMOD.ALT), KB("switchtab4", SDLK.n4, NMOD.ALT),
       KB("switchtab5", SDLK.n5, NMOD.ALT), KB("switchtab6", SDLK.n6, NMOD.ALT),
       KB("switchtab7", SDLK.n7, NMOD.ALT), KB("switchtab8", SDLK.n8, NMOD.ALT),
       KB("switchtab9", SDLK.n9, NMOD.ALT),
       KB("switchtab0", SDLK.n0, NMOD.ALT) >>

\* A run of input_setKeybind calls, binds[1] first: every entry ends as the
\* last call that names it left it, and every call that names no entry warns.
SetKeybinds(kb, binds) ==
    LET hits(i) == { j \in 1..Len(binds) : binds[j][1] = kb[i].name }
        last(i) == binds[Max(hits(i))]
        miss == { j \in 1..Len(binds) : FindName(kb, binds[j][1]) = 0 }
    IN [ kb |-> [ i \in 1..input_numbinds |->
                    IF hits(i) = {} THEN kb[i]
                    ELSE Bound(kb[i], last(i)[2], last(i)[3], last(i)[4]) ],
         warn |-> [ j \in 1..Cardinality(miss) |->
                      "Unable to set keybinding" ] ]

\* What the calls of input_setDefault(wasd) leave in a table whose names are
\* those of keybind_info (input_init sets them and nothing changes them).
DefaultTable ==
    [ wasd \in BOOLEAN |-> SetKeybinds(input_init, DefaultBinds(wasd)) ]

\* The entries input_setDefault(wasd) sets.
DefaultSet ==
    [ wasd \in BOOLEAN |->
        { i \in 1..input_numbinds :
            \E j \in 1..Len(DefaultBinds(wasd)) :
                DefaultBinds(wasd)[j][1] = keybind_info[i] } ]

DefaultLastBind ==
    [ wasd \in BOOLEAN |-> DefaultBinds(wasd)[Len(DefaultBinds(wasd))] ]

\* The defaults without the first call of each layout, that of "accel".
SetDefaultButFirst(kb, wasd) == SetKeybinds(kb, Tail(DefaultBinds(wasd)))

input_setDefault(kb, wasd) ==
    [ kb |-> [ i \in 1..input_numbinds |->
                 IF i \in DefaultSet[wasd]
                 THEN [ kb[i] EXCEPT !.type = DefaultTable[wasd].kb[i].type,
                                     !.key = DefaultTable[wasd].kb[i].key,
                                     !.mod = DefaultTable[wasd].kb[i].mod ]
                 ELSE kb[i] ],
      warn |-> DefaultTable[wasd].warn ]

(***************************************************************************)
(* The dispatcher input_key and what it reads.                             *)
(***************************************************************************)

\* The `value` of input_key, and the full deflection of an analog input.
KEY_PRESS == 1
KEY_RELEASE == -1
AXIS_MAX == 32767

\* MOUSE_HIDE, in ms.
MOUSE_HIDE == 3000

\* conf, with the times in ms.
Conf(delay, freq, sens) ==
    [ repeat_delay |-> delay, repeat_freq |-> freq, afterburn_sens |-> sens ]

\* Key repeat after 500 ms, every 30 ms; double tap within 250 ms.
ConfRepeat == Conf(500, 30, 250)
\* Key repeat and afterburn by double tap both switched off.
ConfOff == Conf(0, 0, 0)

\* What the macros INGAME, NOHYP, NODEAD and NOLAND and map_isOpen read.
Ctx(toolkit, map, player, pilotFlags, landed) ==
    [ toolkit |-> toolkit, map |-> map, player |-> player,
      pilotFlags |-> pilotFlags, landed |-> landed ]

INGAME(c) == ~c.toolkit
NOHYP(c) ==
    /\ c.player
    /\ "PILOT_HYP_PREP" \notin c.pilotFlags
    /\ "PILOT_HYP_BEGIN" \notin c.pilotFlags
    /\ "PILOT_HYPERSPACE" \notin c.pilotFlags
NODEAD(c) == c.player /\ "PILOT_DEAD" \notin c.pilotFlags
NOLAND(c) == c.player /\ ~c.landed /\ "PILOT_LANDING" \notin c.pilotFlags

\* The player flying in space with no window open, and the other situations
\* the guards tell apart: a window open, the map open, landed (the landing
\* window open), landing, the three stages of a jump, dead, no player ship.
Flying == Ctx(FALSE, FALSE, TRUE, {}, FALSE)
Contexts ==
    { Flying,
      Ctx(TRUE, FALSE, TRUE, {}, FALSE),
      Ctx(TRUE, TRUE, TRUE, {}, FALSE),
      Ctx(TRUE, FALSE, TRUE, {}, TRUE),
      Ctx(FALSE, FALSE, TRUE, { "PILOT_LANDING" }, FALSE),
      Ctx(FALSE, FALSE, TRUE, { "PILOT_HYP_PREP" }, FALSE),
      Ctx(FALSE, FALSE, TRUE, { "PILOT_HYP_BEGIN" }, FALSE),
      Ctx(FALSE, FALSE, TRUE, { "PILOT_HYPERSPACE" }, FALSE),
      Ctx(FALSE, FALSE, TRUE, { "PILOT_DEAD" }, FALSE),
      Ctx(TRUE, FALSE, FALSE, {}, FALSE) }

\* The static state of input.c and the state of player.c and pause.c that
\* input_key writes, as one record.
Engine ==
    [ repeat_key |-> repeat_key, repeat_keyTimer |-> repeat_keyTimer,
      repeat_keyCounter |-> repeat_keyCounter,
      input_accelLast |-> input_accelLast,
      input_accelButton |-> input_accelButton,
      playerFlags |-> playerFlags, player_left |-> player_left,
      player_right |-> player_right, player_speed |-> player_speed,
      paused |-> paused, hooked |-> hooked ]

\* A call of a collaborator (player.c, pilot.c, escort.c, map.c, gui.c,
\* menu.c, ...): its name with its constant arguments, and its variable one.
Cmd(f, a) == << f, a >>

\* The condition of each branch of the else-if chain of input_key, but for
\* KEY(name): the macros it tests, and NOREPEAT for !repeat.
KeyGuards ==
    [ accel |-> { "NOREPEAT" }, left |-> { "NOREPEAT" },
      right |-> { "NOREPEAT" }, reverse |-> { "NOREPEAT" },
      primary |-> { "NODEAD", "NOREPEAT" },
      target_next |-> { "INGAME", "NODEAD" },
      target_prev |-> { "INGAME", "NODEAD" },
      target_nearest |-> { "INGAME", "NODEAD" },
      target_nextHostile |-> { "INGAME", "NODEAD" },
      target_prevHostile |-> { "INGAME", "NODEAD" },
      target_hostile |-> { "INGAME", "NODEAD" },
      target_clear |-> { "INGAME", "NODEAD" },
      face |-> { "INGAME", "NODEAD", "NOREPEAT" },
      board |-> { "INGAME", "NOHYP", "NODEAD", "NOREPEAT" },
      e_targetNext |-> { "INGAME", "NODEAD", "NOREPEAT" },
      e_targetPrev |-> { "INGAME", "NODEAD", "NOREPEAT" },
      e_attack |-> { "INGAME", "NODEAD", "NOREPEAT" },
      e_hold |-> { "INGAME", "NODEAD", "NOREPEAT" },
      e_return |-> { "INGAME", "NODEAD", "NOREPEAT" },
      e_clear |-> { "INGAME", "NODEAD", "NOREPEAT" },
      secondary |-> { "NOHYP", "NODEAD", "NOREPEAT" },
      weapset1 |-> { "INGAME", "NODEAD" }, weapset2 |-> { "INGAME", "NODEAD" },
      weapset3 |-> { "INGAME", "NODEAD" }, weapset4 |-> { "INGAME", "NODEAD" },
      weapset5 |-> { "INGAME", "NODEAD" }, weapset6 |-> { "INGAME", "NODEAD" },
      weapset7 |-> { "INGAME", "NODEAD" }, weapset8 |-> { "INGAME", "NODEAD" },
      weapset9 |-> { "INGAME", "NODEAD" }, weapset0 |-> { "INGAME", "NODEAD" },
      autonav |-> { "NOHYP", "NODEAD" },
      target_planet |-> { "INGAME", "NOHYP", "NOLAND", "NODEAD" },
      land |-> { "INGAME", "NOHYP", "NOLAND", "NODEAD" },
      thyperspace |-> { "NOHYP", "NOLAND", "NODEAD" },
      starmap |-> { "NOHYP", "NODEAD", "NOREPEAT" },
      jump |-> { "INGAME", "NOREPEAT" },
      overlay |-> { "NODEAD", "INGAME", "NOREPEAT" },
      mousefly |-> { "NODEAD", "NOREPEAT" },
      autobrake |-> { "NOHYP", "NOLAND", "NODEAD", "NOREPEAT" },
      log_up |-> { "INGAME", "NODEAD" }, log_down |-> { "INGAME", "NODEAD" },
      hail |-> { "INGAME", "NOHYP", "NODEAD", "NOREPEAT" },
      autohail |-> { "INGAME", "NOHYP", "NODEAD", "NOREPEAT" },
      mapzoomin |-> { "INGAME", "NODEAD" },
      mapzoomout |-> { "INGAME", "NODEAD" },
      screenshot |-> {},
      togglefullscreen |-> { "NOREPEAT" },
      pause |-> { "NOREPEAT" },
      speed |-> { "NOREPEAT" },
      menu |-> { "NODEAD", "NOREPEAT" },
      info |-> { "NOHYP", "NODEAD", "NOREPEAT" },
      console |-> { "NODEAD", "NOREPEAT" } ]

\* The names input_key has a branch for.
HandledNames == DOMAIN KeyGuards

GuardHolds(g, c, repeat) ==
    CASE g = "INGAME" -> INGAME(c)
      [] g = "NOHYP" -> NOHYP(c)
      [] g = "NODEAD" -> NODEAD(c)
      [] g = "NOLAND" -> NOLAND(c)
      [] g = "NOREPEAT" -> repeat = 0

\* The branches whose body is `if (value==KEY_PRESS)` and calls: the calls.
PressCmds ==
    [ target_next |-> << Cmd("player_targetNext(0)", 0) >>,
      target_prev |-> << Cmd("player_targetPrev(0)", 0) >>,
      target_nearest |-> << Cmd("player_targetNearest", 0) >>,
      target_nextHostile |-> << Cmd("player_targetNext(1)", 0) >>,
      target_prevHostile |-> << Cmd("player_targetPrev(1)", 0) >>,
      target_hostile |-> << Cmd("player_targetHostile", 0) >>,
      target_clear |-> << Cmd("player_targetClear", 0) >>,
      board |-> << Cmd("player_restoreControl(0)", 0),
                   Cmd("player_board", 0) >>,
      e_targetNext |-> << Cmd("player_targetEscort(0)", 0) >>,
      e_targetPrev |-> << Cmd("player_targetEscort(1)", 0) >>,
      e_attack |-> << Cmd("escorts_attack", 0) >>,
      e_hold |-> << Cmd("escorts_hold", 0) >>,
      e_return |-> << Cmd("escorts_return", 0) >>,
      e_clear |-> << Cmd("escorts_clear", 0) >>,
      target_planet |-> << Cmd("player_targetPlanet", 0) >>,
      land |-> << Cmd("player_land", 0) >>,
      thyperspace |-> << Cmd("player_targetHyperspace", 0) >>,
      starmap |-> << Cmd("map_open", 0) >>,
      jump |-> << Cmd("player_restoreControl(0)", 0),
                  Cmd("player_jump", 0) >>,
      mousefly |-> << Cmd("player_toggleMouseFly", 0) >>,
      autobrake |-> << Cmd("player_restoreControl(PINPUT_BRAKING)", 0),
                       Cmd("player_brake", 0) >>,
      log_up |-> << Cmd("gui_messageScrollUp(5)", 0) >>,
      log_down |-> << Cmd("gui_messageScrollDown(5)", 0) >>,
      hail |-> << Cmd("player_hail", 0) >>,
      autohail |-> << Cmd("player_autohail", 0) >>,
      mapzoomin |-> << Cmd("gui_setRadarRel(-1)", 0) >>,
      mapzoomout |-> << Cmd("gui_setRadarRel(1)", 0) >>,
      screenshot |-> << Cmd("player_screenshot", 0) >>,
      togglefullscreen |-> << Cmd("naev_toggleFullscreen", 0) >>,
      menu |-> << Cmd("menu_small", 0) >>,
      info |-> << Cmd("menu_info(INFO_MAIN)", 0) >>,
      console |-> << Cmd("cli_open", 0) >> ]

\* The first argument of player_weapSetPress in each weapset branch.
WeapSets ==
    [ weapset1 |-> 0, weapset2 |-> 1, weapset3 |-> 2, weapset4 |-> 3,
      weapset5 |-> 4, weapset6 |-> 5, weapset7 |-> 6, weapset8 |-> 7,
      weapset9 |-> 8, weapset0 |-> 9 ]

RestoreMovement == Cmd("player_restoreControl(PINPUT_MOVEMENT)", 0)

\* The afterburner condition with the time since the last press left out.
AfterburnAnyTime(S, value, c, cf, t) ==
    /\ cf.afterburn_sens # 0
    /\ value = KEY_PRESS
    /\ INGAME(c) /\ NOHYP(c) /\ NODEAD(c)

\* The afterburner condition without the test that the double tap is on.
AfterburnAnySens(S, value, c, cf, t) ==
    /\ value = KEY_PRESS
    /\ INGAME(c) /\ NOHYP(c) /\ NODEAD(c)
    /\ t - S.input_accelLast <= cf.afterburn_sens

\* "double tap accel = afterburn!"
AfterburnStarts(S, value, c, cf, t) ==
    /\ cf.afterburn_sens # 0
    /\ value = KEY_PRESS
    /\ INGAME(c) /\ NOHYP(c) /\ NODEAD(c)
    /\ t - S.input_accelLast <= cf.afterburn_sens

\* The accel branch.
KeyAccel(S, value, kabs, c, cf, t) ==
    IF kabs >= 0
    THEN [ S |-> [ S EXCEPT !.input_accelButton = 1 ],
           cmds |-> << RestoreMovement, Cmd("player_accel", kabs) >> ]
    ELSE
      LET S1 == IF value = KEY_PRESS
                THEN [ S EXCEPT !.playerFlags = @ \cup { "PLAYER_ACCEL" },
                                !.input_accelButton = 1 ]
                ELSE IF value = KEY_RELEASE
                THEN [ S EXCEPT !.playerFlags = @ \ { "PLAYER_ACCEL" },
                                !.input_accelButton = 0 ]
                ELSE S
          c1 == IF value = KEY_PRESS
                THEN << RestoreMovement, Cmd("player_accel", AXIS_MAX) >>
                ELSE IF value = KEY_RELEASE
                THEN << Cmd("player_accelOver", 0) >>
                ELSE << >>
          c2 == IF AfterburnStarts(S, value, c, cf, t)
                THEN << Cmd("pilot_afterburn", 0) >>
                ELSE IF value = KEY_RELEASE
                THEN << Cmd("pilot_afterburnOver", 0) >>
                ELSE << >>
      IN [ S |-> IF value = KEY_PRESS
                 THEN [ S1 EXCEPT !.input_accelLast = t ] ELSE S1,
           cmds |-> c1 \o c2 ]

\* The left and right branches: flag and rate are the fields they write.
KeyTurn(S, value, kabs, flag, left) ==
    LET Rate(T, r) == IF left THEN [ T EXCEPT !.player_left = r ]
                              ELSE [ T EXCEPT !.player_right = r ]
        Set(T) == [ T EXCEPT !.playerFlags = @ \cup { flag } ]
    IN IF kabs >= 0
       THEN [ S |-> Rate(Set(S), kabs), cmds |-> << RestoreMovement >> ]
       ELSE IF value = KEY_PRESS
       THEN [ S |-> Rate(Set(S), AXIS_MAX), cmds |-> << RestoreMovement >> ]
       ELSE IF value = KEY_RELEASE
       THEN [ S |-> Rate([ S EXCEPT !.playerFlags = @ \ { flag } ], 0),
              cmds |-> << >> ]
       ELSE [ S |-> S, cmds |-> << >> ]

\* The branches that only set a flag on a press and remove it on a release;
\* onlyIfSet is the player_isFlag test of the release, restore the
\* player_restoreControl of the press.
KeyFlag(S, value, flag, restore, onlyIfSet) ==
    IF value = KEY_PRESS
    THEN [ S |-> [ S EXCEPT !.playerFlags = @ \cup { flag } ],
           cmds |-> IF restore THEN << RestoreMovement >> ELSE << >> ]
    ELSE IF value = KEY_RELEASE /\ (onlyIfSet => flag \in S.playerFlags)
    THEN [ S |-> [ S EXCEPT !.playerFlags = @ \ { flag } ], cmds |-> << >> ]
    ELSE [ S |-> S, cmds |-> << >> ]

\* The reverse branch without the test of PLAYER_ACCEL.
KeyReverseStopsThrottle(S, value) ==
    LET r == KeyFlag(S, value, "PLAYER_REVERSE", TRUE, TRUE) IN
    IF value = KEY_RELEASE /\ "PLAYER_REVERSE" \in S.playerFlags
    THEN [ r EXCEPT !.cmds = << Cmd("player_accelOver", 0) >> ]
    ELSE r

\* The reverse branch.
KeyReverse(S, value) ==
    LET r == KeyFlag(S, value, "PLAYER_REVERSE", TRUE, TRUE) IN
    IF /\ value = KEY_RELEASE
       /\ "PLAYER_REVERSE" \in S.playerFlags
       /\ "PLAYER_ACCEL" \notin S.playerFlags
    THEN [ r EXCEPT !.cmds = << Cmd("player_accelOver", 0) >> ]
    ELSE r

\* The body of the branch that input_key enters for name.
KeyEffect(S, name, value, kabs, repeat, c, cf, t) ==
    LET none == [ S |-> S, cmds |-> << >> ]
        press == value = KEY_PRESS
    IN
    CASE name = "accel" -> KeyAccel(S, value, kabs, c, cf, t)
      [] name = "left" -> KeyTurn(S, value, kabs, "PLAYER_TURN_LEFT", TRUE)
      [] name = "right" -> KeyTurn(S, value, kabs, "PLAYER_TURN_RIGHT", FALSE)
      [] name = "reverse" -> KeyReverse(S, value)
      [] name = "primary" -> KeyFlag(S, value, "PLAYER_PRIMARY", FALSE, FALSE)
      [] name = "face" -> KeyFlag(S, value, "PLAYER_FACE", TRUE, TRUE)
      [] name = "secondary" ->
            KeyFlag(S, value, "PLAYER_SECONDARY", FALSE, FALSE)
      [] name \in DOMAIN WeapSets ->
            [ S |-> S,
              cmds |-> << Cmd("player_weapSetPress", WeapSets[name]) >> ]
      [] name = "autonav" ->
            IF press /\ c.map
            THEN [ S |-> S, cmds |-> << Cmd("player_autonavStartWindow", 0) >> ]
            ELSE IF press /\ INGAME(c)
            THEN [ S |-> S, cmds |-> << Cmd("player_autonavStart", 0) >> ]
            ELSE none
      [] name = "overlay" -> [ S |-> S, cmds |-> << Cmd("ovr_key", value) >> ]
      [] name = "pause" ->
            IF press /\ ~c.toolkit
            THEN IF S.paused
                 THEN [ S |-> [ S EXCEPT !.paused = FALSE ],
                        cmds |-> << Cmd("unpause_game", 0) >> ]
                 ELSE [ S |-> [ S EXCEPT !.paused = TRUE ],
                        cmds |-> << Cmd("pause_player", 0) >> ]
            ELSE none
      [] name = "speed" ->
            IF press /\ "PLAYER_CINEMATICS_2X" \notin S.playerFlags
            THEN [ S |-> [ S EXCEPT !.player_speed =
                                       IF @ < 4 THEN @ * 2 ELSE 1 ],
                   cmds |-> << Cmd("player_resetSpeed", 0) >> ]
            ELSE none
      [] name \in DOMAIN PressCmds ->
            IF press THEN [ S |-> S, cmds |-> PressCmds[name] ] ELSE none
      [] OTHER -> none

\* The repetition bookkeeping with a press that is recorded only when no
\* key is held.
RepeatStateFirstHeld(S, keynum, value, repeat, cf, t) ==
    IF cf.repeat_delay = 0 THEN S
    ELSE IF value = KEY_PRESS /\ repeat = 0
    THEN (IF S.repeat_key = 0 - 1
          THEN [ S EXCEPT !.repeat_key = keynum, !.repeat_keyTimer = t,
                          !.repeat_keyCounter = 0 ]
          ELSE S)
    ELSE IF value = KEY_RELEASE
    THEN [ S EXCEPT !.repeat_key = 0 - 1, !.repeat_keyTimer = 0,
                    !.repeat_keyCounter = 0 ]
    ELSE S

\* The repetition bookkeeping with a reset only at the release of the key
\* that is held.
RepeatStateOwnRelease(S, keynum, value, repeat, cf, t) ==
    IF cf.repeat_delay = 0 THEN S
    ELSE IF value = KEY_PRESS /\ repeat = 0
    THEN [ S EXCEPT !.repeat_key = keynum, !.repeat_keyTimer = t,
                    !.repeat_keyCounter = 0 ]
    ELSE IF value = KEY_RELEASE /\ S.repeat_key = keynum
    THEN [ S EXCEPT !.repeat_key = 0 - 1, !.repeat_keyTimer = 0,
                    !.repeat_keyCounter = 0 ]
    ELSE S

\* "Repetition stuff": the head of input_key.
KeyRepeatState(S, keynum, value, repeat, cf, t) ==
    IF cf.repeat_delay = 0 THEN S
    ELSE IF value = KEY_PRESS /\ repeat = 0
    THEN [ S EXCEPT !.repeat_key = keynum, !.repeat_keyTimer = t,
                    !.repeat_keyCounter = 0 ]
    ELSE IF value = KEY_RELEASE
    THEN [ S EXCEPT !.repeat_key = 0 - 1, !.repeat_keyTimer = 0,
                    !.repeat_keyCounter = 0 ]
    ELSE S

\* Whether the else-if chain of input_key enters a branch, so that the call
\* goes on to "Run the hook" instead of returning at "Key press not used".
KeyUsed(name, repeat, c) ==
    /\ name \in HandledNames
    /\ \A g \in KeyGuards[name] : GuardHolds(g, c, repeat)

\* input_key( keynum, value, kabs, repeat ) at time t: the state it leaves
\* and the record of the call: the collaborators called, in order, and the
\* parameters of each hooks_runParam( "input", ... ).  held tells whether
\* the repeat state named keynum when the call was made, and paired
\* whether the latest hook for the action had told a press.
input_key(S, kb, c, cf, t, keynum, value, kabs, repeat) ==
    LET name == kb[keynum].name
        S1 == KeyRepeatState(S, keynum, value, repeat, cf, t)
        used == KeyUsed(name, repeat, c)
        eff == KeyEffect(S1, name, value, kabs, repeat, c, cf, t)
        told == IF value > 0 THEN eff.S.hooked \cup { name }
                             ELSE eff.S.hooked \ { name }
    IN [ S |-> IF used THEN [ eff.S EXCEPT !.hooked = told ] ELSE S1,
         call |-> [ keynum |-> keynum, name |-> name, value |-> value,
                    kabs |-> kabs, repeat |-> repeat,
                    held |-> (S.repeat_key = keynum),
                    paired |-> (name \in S.hooked),
                    cmds |-> IF used THEN eff.cmds ELSE << >>,
                    hooks |-> IF used
                              THEN << [ name |-> name, press |-> value > 0 ] >>
                              ELSE << >> ] ]

\* The input_key calls of one scan of the table, keys[1] first; each of
\* keys is << keynum, value, kabs, repeat >>.
RECURSIVE RunKeys(_, _, _, _, _, _)
RunKeys(S, keys, kb, c, cf, t) ==
    IF keys = << >> THEN [ S |-> S, calls |-> << >> ]
    ELSE LET k == Head(keys)
             r == input_key(S, kb, c, cf, t, k[1], k[2], k[3], k[4])
             rest == RunKeys(r.S, Tail(keys), kb, c, cf, t)
         IN [ S |-> rest.S, calls |-> << r.call >> \o rest.calls ]

(***************************************************************************)
(* The event filters: the input_key calls each makes, in table order.      *)
(***************************************************************************)

TableOrder == [ i \in 1..input_numbinds |-> i ]

input_translateMod(mod) ==
    (IF mod \cap (KMOD.LSHIFT \cup KMOD.RSHIFT) # {} THEN NMOD.SHIFT ELSE {})
    \cup
    (IF mod \cap (KMOD.LCTRL \cup KMOD.RCTRL) # {} THEN NMOD.CTRL ELSE {})
    \cup
    (IF mod \cap (KMOD.LALT \cup KMOD.RALT) # {} THEN NMOD.ALT ELSE {})
    \cup
    (IF mod \cap (KMOD.LGUI \cup KMOD.RGUI) # {} THEN NMOD.META ELSE {})

\* Every event of a disabled binding is skipped.
SkippedWhenDisabled(k, event) == k.disabled
\* No event of a disabled binding is skipped.
SkippedNever(k, event) == FALSE

\* (event == KEY_PRESS) && input_keybinds[i].disabled: the `continue` of
\* the four filters.
Skipped(k, event) == event = KEY_PRESS /\ k.disabled

\* The modifier test with "Release always gets through" left out.
ModMatchesPressOnly(k, mod_filtered, event) ==
    k.mod = mod_filtered \/ k.mod = NMOD.ANY

\* The modifier test of input_keyevent.
ModMatches(k, mod_filtered, event) ==
    \/ k.mod = mod_filtered
    \/ k.mod = NMOD.ANY
    \/ event = KEY_RELEASE

\* input_keyevent with a break after the first input_key.
KeyeventFirstOnly(kb, event, key, mod, repeat) ==
    LET mod_filtered == input_translateMod(mod)
        hit == SelectSeq(TableOrder, LAMBDA i :
                 /\ ~Skipped(kb[i], event)
                 /\ kb[i].type = "KEYBIND_KEYBOARD"
                 /\ kb[i].key = key
                 /\ ModMatches(kb[i], mod_filtered, event))
    IN IF hit = << >> THEN << >>
       ELSE << << hit[1], event, 0 - 1, repeat >> >>

input_keyevent(kb, event, key, mod, repeat) ==
    LET mod_filtered == input_translateMod(mod)
        hit == SelectSeq(TableOrder, LAMBDA i :
                 /\ ~Skipped(kb[i], event)
                 /\ kb[i].type = "KEYBIND_KEYBOARD"
                 /\ kb[i].key = key
                 /\ ModMatches(kb[i], mod_filtered, event))
    IN [ j \in 1..Len(hit) |-> << hit[j], event, 0 - 1, repeat >> ]

Abs(x) == IF x < 0 THEN 0 - x ELSE x

\* The direction of an axis value for a binding of the given type: press,
\* release, or 0 when the binding is not concerned.
AxisEvent(type, value) ==
    IF type = "KEYBIND_JAXISPOS" /\ value >= 0
    THEN (IF value > 0 THEN KEY_PRESS ELSE KEY_RELEASE)
    ELSE IF type = "KEYBIND_JAXISNEG" /\ value <= 0
    THEN (IF value < 0 THEN KEY_PRESS ELSE KEY_RELEASE)
    ELSE 0

input_joyaxis(kb, axis, value) ==
    LET k(i) == AxisEvent(kb[i].type, value)
        hit == SelectSeq(TableOrder, LAMBDA i :
                 /\ kb[i].key = axis
                 /\ k(i) # 0
                 /\ ~Skipped(kb[i], k(i)))
    IN [ j \in 1..Len(hit) |-> << hit[j], k(hit[j]), Abs(value), 0 >> ]

input_joyevent(kb, event, button) ==
    LET hit == SelectSeq(TableOrder, LAMBDA i :
                 /\ ~Skipped(kb[i], event)
                 /\ kb[i].type = "KEYBIND_JBUTTON"
                 /\ kb[i].key = button)
    IN [ j \in 1..Len(hit) |-> << hit[j], event, 0 - 1, 0 >> ]

\* SDL_HAT_UP, _RIGHT, _DOWN, _LEFT as sets of bit positions, by the
\* binding type that tests each.
SDL_HAT ==
    [ KEYBIND_JHAT_UP |-> {0}, KEYBIND_JHAT_RIGHT |-> {1},
      KEYBIND_JHAT_DOWN |-> {2}, KEYBIND_JHAT_LEFT |-> {3} ]

HatEvent(type, value) ==
    IF value \cap SDL_HAT[type] # {} THEN KEY_PRESS ELSE KEY_RELEASE

\* The hat filter without the test of the hat the event comes from.
JoyhatAnyHat(kb, value, hat) ==
    LET hit == SelectSeq(TableOrder, LAMBDA i :
                 /\ kb[i].type \in DOMAIN SDL_HAT
                 /\ ~Skipped(kb[i], HatEvent(kb[i].type, value)))
    IN [ j \in 1..Len(hit) |->
           << hit[j], HatEvent(kb[hit[j]].type, value), 0 - 1, 0 >> ]

input_joyhatevent(kb, value, hat) ==
    LET hit == SelectSeq(TableOrder, LAMBDA i :
                 /\ kb[i].key = hat
                 /\ kb[i].type \in DOMAIN SDL_HAT
                 /\ ~Skipped(kb[i], HatEvent(kb[i].type, value)))
    IN [ j \in 1..Len(hit) |->
           << hit[j], HatEvent(kb[hit[j]].type, value), 0 - 1, 0 >> ]

(***************************************************************************)
(* input_handle and input_update.                                          *)
(***************************************************************************)

\* An SDL event as input_handle reads it: id is the key, axis, button or
\* hat; value the axis value; hat the hat value; grabbed whether the
\* toolkit, the overlay or the GUI takes it (toolkit_input, ovr_input,
\* gui_handleEvent).  The tick input_update is recorded in the same form.
Event(type, id, mod, value, hat, repeat, grabbed) ==
    [ type |-> type, id |-> id, mod |-> mod, value |-> value, hat |-> hat,
      repeat |-> repeat, grabbed |-> grabbed ]

NoEvent == Event("none", 0, {}, 0, {}, 0, FALSE)

\* The keyboard cases of input_handle without the test of key.repeat.
HandleKeyAnyRepeat(kb, e) ==
    input_keyevent(kb, IF e.type = "SDL_KEYDOWN" THEN KEY_PRESS
                                                 ELSE KEY_RELEASE,
                   e.id, e.mod, 0)

\* case SDL_KEYDOWN / SDL_KEYUP of input_handle.
HandleKey(kb, e) ==
    IF e.repeat # 0 THEN << >>
    ELSE input_keyevent(kb, IF e.type = "SDL_KEYDOWN" THEN KEY_PRESS
                                                      ELSE KEY_RELEASE,
                        e.id, e.mod, 0)

\* input_handle that goes on to the filters with an event that the
\* toolkit, the overlay or the GUI took.
HandleWhenTaken(kb, e) ==
    CASE e.type \in { "SDL_KEYDOWN", "SDL_KEYUP" } -> HandleKey(kb, e)
      [] e.type = "SDL_JOYAXISMOTION" -> input_joyaxis(kb, e.id, e.value)
      [] e.type = "SDL_JOYBUTTONDOWN" -> input_joyevent(kb, KEY_PRESS, e.id)
      [] e.type = "SDL_JOYBUTTONUP" -> input_joyevent(kb, KEY_RELEASE, e.id)
      [] e.type = "SDL_JOYHATMOTION" -> input_joyhatevent(kb, e.hat, e.id)
      [] OTHER -> << >>

\* The input_key calls input_handle makes for event e.
input_handle(kb, e) ==
    IF e.grabbed THEN << >>
    ELSE CASE e.type \in { "SDL_KEYDOWN", "SDL_KEYUP" } -> HandleKey(kb, e)
           [] e.type = "SDL_JOYAXISMOTION" -> input_joyaxis(kb, e.id, e.value)
           [] e.type = "SDL_JOYBUTTONDOWN" ->
                 input_joyevent(kb, KEY_PRESS, e.id)
           [] e.type = "SDL_JOYBUTTONUP" ->
                 input_joyevent(kb, KEY_RELEASE, e.id)
           [] e.type = "SDL_JOYHATMOTION" ->
                 input_joyhatevent(kb, e.hat, e.id)
           [] OTHER -> << >>

\* A repeat that waits until the time is past the delay, not just at it.
RepeatDueLater(S, cf, t) ==
    /\ cf.repeat_delay # 0
    /\ S.repeat_key # 0 - 1
    /\ t > S.repeat_keyTimer + cf.repeat_delay
            + S.repeat_keyCounter * cf.repeat_freq

\* "Should be repeating": the test of input_update that lets a repeat go.
RepeatDue(S, cf, t) ==
    /\ cf.repeat_delay # 0
    /\ S.repeat_key # 0 - 1
    /\ ~( S.repeat_keyTimer + cf.repeat_delay
            + S.repeat_keyCounter * cf.repeat_freq > t )

\* The input_key calls of input_update, after repeat_keyCounter++.
input_update(S, kb, c, cf, t) ==
    IF RepeatDue(S, cf, t)
    THEN RunKeys([ S EXCEPT !.repeat_keyCounter = @ + 1 ],
                 << << S.repeat_key, KEY_PRESS, 0, 1 >> >>, kb, c, cf, t)
    ELSE [ S |-> S, calls |-> << >> ]

(***************************************************************************)
(* The mouse: click resolution (input_clickevent, input_clickPos, the      *)
(* input_clicked* handlers) and double-click detection.                    *)
(*                                                                         *)
(*  - Lengths are world units and squared distances are compared as the    *)
(*    code compares them; radii are kept times ten (0.6 * sw is 6 * sw).   *)
(*  - Angles are in microradians; conf.mouse_doubleclick is in             *)
(*    microseconds, so that (int)(conf.mouse_doubleclick * 1000) is a      *)
(*    truncating division.                                                 *)
(*  - A pointer to a pilot, planet, jump point or asteroid is the record   *)
(*    Entity(kind, field, id).                                             *)
(*  - The clock stays far from the end of the range of unsigned int, so    *)
(*    the sums of times are written without their wrap-around.             *)
(***************************************************************************)

\* PLAYER_ID, the pilot id of the player: "no pilot" for a click.
PLAYER_ID == 1
\* M_PI, in microradians (the integers above it are the angles > M_PI).
M_PI == 3141592

Entity(kind, field, id) == [ kind |-> kind, field |-> field, id |-> id ]
NULL == Entity("NULL", 0, 0)

\* What a click reads from the rest of the game: the result of
\* gl_windowToScreenPos (mx, my) and the screen size, the click in game
\* coordinates (x, y), the player's position, 1 / cam_getZoom() times ten,
\* the answers of pilot_getNearestAng and system_getClosestAng with their
\* angle_diff to the bearing of the mouse, whether the radar takes the
\* click, the pilots with their position and sprite width, the answer of
\* system_getClosest with the size of the asset, and what the handlers
\* ask about the entity they are given.
Spot(mx, my, x, y, invzoom, angP, angA, radar, pilots, nearA, ok, able) ==
    [ mx |-> mx, my |-> my, x |-> x, y |-> y, invzoom |-> invzoom,
      angP |-> angP, angA |-> angA, radar |-> radar, pilots |-> pilots,
      nearA |-> nearA, ok |-> ok, able |-> able ]

\* pilot_getNearestAng: the pilot and angle_diff( mouseang, angp ).
AngP(pid, dev) == [ pid |-> pid, dev |-> dev ]
\* system_getClosestAng / system_getClosest: what was found ("planet",
\* "jump", "asteroid" or "none": all four ids -1), angle_diff( mouseang,
\* ang ) or the squared distance d, and the size the radius is taken from
\* (radius; w and h of the asteroid's gfx).
Asset(kind, field, id, dev, d, radius, w, h) ==
    [ kind |-> kind, field |-> field, id |-> id, dev |-> dev, d |-> d,
      radius |-> radius, w |-> w, h |-> h ]
NoAsset == Asset("none", 0, 0 - 1, 0, 0, 0, 0, 0)
\* A pilot: solid->pos and ship->gfx_space->sw.
Pilot(x, y, sw) == [ x |-> x, y |-> y, sw |-> sw ]

pow2(x) == x * x
MAX(a, b) == IF a > b THEN a ELSE b

\* The state a click reads and writes: player.p->target, nav_planet,
\* nav_hyperspace, the asteroid target, input_lastClicked and
\* input_mouseClickLast; with the collaborators called (cmds) and the
\* calls of input_isDoubleClick (dbl) and of the input_clicked* handlers
\* (picked) so far.
ClickState(target, planet, jump, ast, last, lastT) ==
    [ target |-> target, nav_planet |-> planet, nav_hyperspace |-> jump,
      nav_asteroid |-> ast, input_lastClicked |-> last,
      input_mouseClickLast |-> lastT, cmds |-> << >>, dbl |-> << >>,
      picked |-> << >> ]

Did(C, cmds) == [ C EXCEPT !.cmds = @ \o cmds ]
Used(C, r) == [ C |-> C, ret |-> r ]

\* Comparing the clock with the pointer and the time of the latest click,
\* whatever the configuration.
IsDoubleClickNoDisable(C, dc, t, clicked) ==
    /\ t <= C.input_mouseClickLast + (dc \div 1000)
    /\ clicked = C.input_lastClicked

input_isDoubleClick(C, dc, t, clicked) ==
    IF dc <= 0 THEN TRUE
    ELSE /\ t <= C.input_mouseClickLast + (dc \div 1000)
         /\ clicked = C.input_lastClicked

\* The && of the handlers: input_isDoubleClick is called only when the
\* entity is the one already targeted.
DoubleClicked(C, dc, t, targeted, clicked) ==
    LET r == input_isDoubleClick(C, dc, t, clicked) IN
    IF targeted
    THEN [ C |-> [ C EXCEPT !.dbl = Append(@, [ clicked |-> clicked,
                                                   result |-> r ]) ],
           yes |-> r ]
    ELSE [ C |-> C, yes |-> FALSE ]

input_clicked(C, dc, t, clicked) ==
    IF dc <= 0 THEN C
    ELSE [ C EXCEPT !.input_lastClicked = clicked,
                    !.input_mouseClickLast = t ]

\* The pilot handler with input_clicked called only when the pilot is made
\* the target, not after a double click.
ClickedPilotForgetsDouble(C, w, dc, t, pilot, autonav) ==
    LET p == Entity("pilot", 0, pilot) IN
    IF pilot = PLAYER_ID THEN Used(C, 0)
    ELSE IF autonav
    THEN Used(Did([ C EXCEPT !.target = pilot ],
                  << Cmd("player_targetSet", pilot),
                     Cmd("player_autonavPil", pilot) >>), 1)
    ELSE LET q == DoubleClicked(C, dc, t, pilot = C.target, p) IN
         IF q.yes
         THEN Used(Did(q.C, << Cmd(IF w.able THEN "player_board"
                                             ELSE "player_hail", 0) >>), 1)
         ELSE Used(input_clicked(
                       Did([ q.C EXCEPT !.target = pilot ],
                           << Cmd("player_targetSet", pilot) >>),
                       dc, t, p), 1)

\* The pilot handler with a double click that hails whatever the pilot.
ClickedPilotHails(C, w, dc, t, pilot, autonav) ==
    LET p == Entity("pilot", 0, pilot) IN
    IF pilot = PLAYER_ID THEN Used(C, 0)
    ELSE IF autonav
    THEN Used(Did([ C EXCEPT !.target = pilot ],
                  << Cmd("player_targetSet", pilot),
                     Cmd("player_autonavPil", pilot) >>), 1)
    ELSE LET q == DoubleClicked(C, dc, t, pilot = C.target, p)
             D == IF q.yes
                  THEN Did(q.C, << Cmd("player_hail", 0) >>)
                  ELSE Did([ q.C EXCEPT !.target = pilot ],
                           << Cmd("player_targetSet", pilot) >>)
         IN Used(input_clicked(D, dc, t, p), 1)

\* w.able: pilot_isDisabled(p) || pilot_isFlag(p, PILOT_BOARDABLE).
input_clickedPilot(C, w, dc, t, pilot, autonav) ==
    LET p == Entity("pilot", 0, pilot) IN
    IF pilot = PLAYER_ID THEN Used(C, 0)
    ELSE IF autonav
    THEN Used(Did([ C EXCEPT !.target = pilot ],
                  << Cmd("player_targetSet", pilot),
                     Cmd("player_autonavPil", pilot) >>), 1)
    ELSE LET q == DoubleClicked(C, dc, t, pilot = C.target, p)
             D == IF q.yes
                  THEN Did(q.C, << Cmd(IF w.able THEN "player_board"
                                                 ELSE "player_hail", 0) >>)
                  ELSE Did([ q.C EXCEPT !.target = pilot ],
                           << Cmd("player_targetSet", pilot) >>)
         IN Used(input_clicked(D, dc, t, p), 1)

\* w.ok: planet_isKnown(pnt); w.able: the planet can be landed on.
input_clickedPlanet(C, w, dc, t, planet, autonav) ==
    LET pnt == Entity("planet", 0, planet) IN
    IF ~w.ok THEN Used(C, 0)
    ELSE IF autonav
    THEN Used(Did([ C EXCEPT !.nav_planet = planet ],
                  << Cmd("player_targetPlanetSet", planet),
                     Cmd("player_autonavPnt", planet) >>), 1)
    ELSE LET q == DoubleClicked(C, dc, t, planet = C.nav_planet, pnt)
             D == IF q.yes
                  THEN Did(q.C, << Cmd("player_hyperspacePreempt", 0),
                                   Cmd(IF w.able THEN "player_land"
                                       ELSE "player_hailPlanet", 0) >>)
                  ELSE Did([ q.C EXCEPT !.nav_planet = planet ],
                           << Cmd("player_targetPlanetSet", planet) >>)
         IN Used(input_clicked(D, dc, t, pnt), 1)

\* The jump handler with the map path updated before the test of
\* jp_isUsable.
ClickedJumpSelectsFirst(C, w, dc, t, jump, autonav) ==
    LET jp == Entity("jump", 0, jump)
        M == IF C.nav_hyperspace # jump
             THEN Did(C, << Cmd("map_select", jump) >>) ELSE C
    IN
    IF ~w.ok THEN Used(M, 0)
    ELSE IF autonav
    THEN Used(Did([ M EXCEPT !.nav_hyperspace = jump ],
                  << Cmd("player_targetHyperspaceSet", jump),
                     Cmd("player_autonavStart", 0) >>), 1)
    ELSE LET q == DoubleClicked(M, dc, t, jump = M.nav_hyperspace, jp)
             D == IF q.yes
                  THEN IF w.able THEN Did(q.C, << Cmd("player_jump", 0) >>)
                                 ELSE q.C
                  ELSE Did([ q.C EXCEPT !.nav_hyperspace = jump ],
                           << Cmd("player_targetHyperspaceSet", jump) >>)
         IN Used(input_clicked(D, dc, t, jp), 1)

\* w.ok: jp_isUsable(jp); w.able: space_canHyperspace(player.p).
input_clickedJump(C, w, dc, t, jump, autonav) ==
    LET jp == Entity("jump", 0, jump)
        M == IF C.nav_hyperspace # jump
             THEN Did(C, << Cmd("map_select", jump) >>) ELSE C
    IN
    IF ~w.ok THEN Used(C, 0)
    ELSE IF autonav
    THEN Used(Did([ M EXCEPT !.nav_hyperspace = jump ],
                  << Cmd("player_targetHyperspaceSet", jump),
                     Cmd("player_autonavStart", 0) >>), 1)
    ELSE LET q == DoubleClicked(M, dc, t, jump = M.nav_hyperspace, jp)
             D == IF q.yes
                  THEN IF w.able THEN Did(q.C, << Cmd("player_jump", 0) >>)
                                 ELSE q.C
                  ELSE Did([ q.C EXCEPT !.nav_hyperspace = jump ],
                           << Cmd("player_targetHyperspaceSet", jump) >>)
         IN Used(input_clicked(D, dc, t, jp), 1)

input_clickedAsteroid(C, dc, t, field, asteroid) ==
    LET ast == Entity("asteroid", field, asteroid) IN
    Used(input_clicked(
             Did([ C EXCEPT !.nav_asteroid = ast ],
                 << Cmd("player_targetAsteroidSet", asteroid) >>),
             dc, t, ast), 1)

\* The call of a handler, as it is recorded: where it was called from
\* ("border" or "pos"), the entity it was given and what it returned.
Picked(r, stage, entity) ==
    Used([ r.C EXCEPT !.picked = Append(@, [ stage |-> stage,
                                             entity |-> entity,
                                             ret |-> r.ret ]) ], r.ret)

\* The handler of a pilot or of the asset a (a.kind # "none").
ClickedPilot(C, w, dc, t, stage, pid, autonav) ==
    Picked(input_clickedPilot(C, w, dc, t, pid, autonav), stage,
           Entity("pilot", 0, pid))

ClickedAsset(C, w, dc, t, stage, a, autonav) ==
    Picked(CASE a.kind = "planet" ->
                   input_clickedPlanet(C, w, dc, t, a.id, autonav)
             [] a.kind = "jump" ->
                   input_clickedJump(C, w, dc, t, a.id, autonav)
             [] a.kind = "asteroid" ->
                   input_clickedAsteroid(C, dc, t, a.field, a.id),
           stage, Entity(a.kind, a.field, a.id))

\* PILOT_SIZE_APROX (pilot.h), in tenths.
PILOT_SIZE_APROX == 8

\* pilot_getNearestPos( player.p, &pid, x, y, 1 ): the pilot other than
\* the player that is nearest to (x, y).
pilot_getNearestPos(w) ==
    LET others == DOMAIN w.pilots \ { PLAYER_ID }
        dist(p) == pow2(w.x - w.pilots[p].x) + pow2(w.y - w.pilots[p].y)
    IN CHOOSE p \in others :
          \A q \in others : dist(p) < dist(q) \/ (dist(p) = dist(q) /\ p <= q)

\* rp and r of input_clickPos, times ten.
PilotRadius(p, zoom, minpr) ==
    MAX((15 * PILOT_SIZE_APROX * p.sw * zoom) \div 20, 10 * minpr)

AssetRadius(a, zoom, minr) ==
    CASE a.kind \in { "planet", "jump" } ->
           MAX(15 * a.radius * zoom, 10 * minr)
      [] a.kind = "asteroid" ->
           MAX(MAX(10 * a.w * zoom, 10 * minr), 10 * a.h * zoom)
      [] OTHER -> 0

\* The pilot is kept whenever it is inside its radius, whatever asset is
\* closer.
PilotRejectedFarOnly(dp, rp, d, r) == 100 * dp > pow2(rp)

\* "Reject pilot if it's too far or a valid asset is closer."
PilotRejected(dp, rp, d, r) ==
    (100 * dp > pow2(rp)) \/ ((100 * d < pow2(r)) /\ (dp > d))

\* "Planet or jump point is too far."
AssetRejected(d, r) == 100 * d > pow2(r)

\* "Go to position" only from more than 1500 px away.
AutonavPosFarther(w) ==
    pow2(w.x - w.pilots[PLAYER_ID].x) + pow2(w.y - w.pilots[PLAYER_ID].y)
        > pow2(1500)

\* "Go to position, if the position is >= 1500 px away."
AutonavPosFar(w) ==
    pow2(w.x - w.pilots[PLAYER_ID].x) + pow2(w.y - w.pilots[PLAYER_ID].y)
        >= pow2(1500)

\* "Don't allow selecting a new target with the right mouse button".
RightClickPilot(C, w) == C.target

input_clickPos(C, w, dc, t, button, zoom, minpr, minr) ==
    LET pid0 == IF button = "SDL_BUTTON_RIGHT" THEN RightClickPilot(C, w)
                ELSE pilot_getNearestPos(w)
        p == w.pilots[pid0]
        dp == pow2(w.x - p.x) + pow2(w.y - p.y)
        a0 == w.nearA
        d == a0.d
        rp == PilotRadius(p, zoom, minpr)
        r == AssetRadius(a0, zoom, minr)
        pid == IF PilotRejected(dp, rp, d, r) THEN PLAYER_ID ELSE pid0
        a == IF AssetRejected(d, r) THEN NoAsset ELSE a0
    IN
    IF button = "SDL_BUTTON_LEFT"
    THEN IF pid # PLAYER_ID THEN ClickedPilot(C, w, dc, t, "pos", pid, FALSE)
         ELSE IF a.kind # "none"
         THEN ClickedAsset(C, w, dc, t, "pos", a, FALSE)
         ELSE Used(C, 0)
    ELSE IF button = "SDL_BUTTON_RIGHT"
    THEN IF pid # PLAYER_ID THEN ClickedPilot(C, w, dc, t, "pos", pid, TRUE)
         ELSE LET q == IF a.kind \in { "planet", "jump" }
                       THEN ClickedAsset(C, w, dc, t, "pos", a, TRUE)
                       ELSE Used(C, 0)
              IN IF q.ret # 0 THEN q
                 ELSE Used(IF AutonavPosFar(w)
                           THEN Did(q.C, << Cmd("player_autonavPos", 0) >>)
                           ELSE q.C, 1)
    ELSE Used(C, 0)

gl_screen == [ w |-> 800, h |-> 600 ]

\* The click is in the border of the screen.
Border(w) ==
    (w.mx <= 15 \/ w.my <= 15)
        \/ (w.my >= gl_screen.h - 15 \/ w.mx >= gl_screen.w - 15)

\* ABS( angle ) > M_PI / 64
TooWide(dev) == 64 * Abs(dev) > M_PI

\* The pilot of a border click is kept whenever its angle is small enough.
BorderPilotRejectedWideOnly(w) == TooWide(w.angP.dev)

\* "Pilot angle is too great, or planet/jump is closer."
BorderPilotRejected(w) ==
    TooWide(w.angP.dev) \/ Abs(w.angA.dev) < Abs(w.angP.dev)

\* "Asset angle difference is too great."
BorderAssetRejected(w) == TooWide(w.angA.dev)

\* The border case of input_clickevent; ret is whether it returned from
\* input_clickevent.
BorderClick(C, w, dc, t, autonav) ==
    LET pid == IF BorderPilotRejected(w) THEN PLAYER_ID ELSE w.angP.pid
        a == IF BorderAssetRejected(w) THEN NoAsset ELSE w.angA
    IN IF pid # PLAYER_ID
       THEN ClickedPilot(C, w, dc, t, "border", pid, autonav)
       ELSE IF a.kind # "none"
       THEN ClickedAsset(C, w, dc, t, "border", a, autonav)
       ELSE Used(C, 0)

\* input_clickevent; ret is what input_clickPos returned, -1 when it was
\* not called.
input_clickevent(C, w, dc, t, c, pf, button) ==
    IF ~c.player \/ "PLAYER_DESTROYED" \in pf THEN Used(C, 0 - 1)
    ELSE IF "PILOT_DEAD" \in c.pilotFlags THEN Used(C, 0 - 1)
    ELSE IF button = "SDL_BUTTON_MIDDLE"
    THEN Used(Did(C, << Cmd("player_toggleMouseFly", 0) >>), 0 - 1)
    ELSE IF button \notin { "SDL_BUTTON_LEFT", "SDL_BUTTON_RIGHT" }
    THEN Used(C, 0 - 1)
    ELSE LET autonav == button = "SDL_BUTTON_RIGHT"
             b == IF Border(w) THEN BorderClick(C, w, dc, t, autonav)
                  ELSE Used(C, 0)
             res == w.invzoom \div 10
         IN IF b.ret # 0 THEN Used(b.C, 0 - 1)
            ELSE IF w.radar THEN Used(b.C, 0 - 1)
            ELSE input_clickPos(b.C, w, dc, t, button, res, 10 * res,
                                15 * res)

\* History of the latest mouse button event: the button, the spot, whether
\* the overlay or the GUI took it, the time, the hooks run, the click
\* state before (was) and after it with the calls made (did), and what
\* input_clickPos returned (-1: not called).
Click(button, spot, grabbed, t, hooks, was, did, r) ==
    [ button |-> button, spot |-> spot, grabbed |-> grabbed, t |-> t,
      hooks |-> hooks, was |-> was, did |-> did, ret |-> r ]

NoClick ==
    Click("none", 0, FALSE, 0, << >>,
          ClickState(PLAYER_ID, 0 - 1, 0 - 1, NULL, NULL, 0),
          ClickState(PLAYER_ID, 0 - 1, 0 - 1, NULL, NULL, 0), 0 - 1)

(***************************************************************************)
(* The double fields of ShipStats: IEEE-754 binary64 values that are zero  *)
(* or positive.  A double is a record [ m, e ] of value m * 2^(e - 52),    *)
(* where the mantissa m, of DBL_MANT_DIG bits with the highest one set, is *)
(* written as limbs of LIMB_BITS bits, lowest first; zero has no limbs.    *)
(* Sums and products are computed exactly and then rounded to nearest,     *)
(* and to even on a tie, as the C operators + and * do.  The values used   *)
(* stay far from overflow and from the subnormal range.                    *)
(***************************************************************************)

DBL_MANT_DIG == 53

LIMB_BITS == 13

LIMB == 2^LIMB_BITS

Limb(a, i) == IF i \in 1..Len(a) THEN a[i] ELSE 0

\* The limbs of the natural whose limbs, not yet below LIMB, are cols.
RECURSIVE Carry(_, _)
Carry(cols, c) ==
    IF cols = << >>
    THEN (IF c = 0 THEN << >> ELSE << c % LIMB >> \o Carry(cols, c \div LIMB))
    ELSE LET s == Head(cols) + c
         IN << s % LIMB >> \o Carry(Tail(cols), s \div LIMB)

\* A natural without the zero limbs above its highest one.
RECURSIVE Trim(_)
Trim(a) ==
    IF a = << >> \/ a[Len(a)] # 0 THEN a
    ELSE Trim(SubSeq(a, 1, Len(a) - 1))

AddNat(a, b) ==
    LET n == IF Len(a) > Len(b) THEN Len(a) ELSE Len(b)
    IN Carry([ i \in 1..n |-> Limb(a, i) + Limb(b, i) ], 0)

RECURSIVE SumTo(_, _)
SumTo(f, n) == IF n = 0 THEN 0 ELSE f[n] + SumTo(f, n - 1)

\* The product of two naturals of at most five limbs each: the columns of
\* the long multiplication, then the carries.
MulNat(a, b) ==
    IF a = << >> \/ b = << >> THEN << >>
    ELSE Trim(Carry([ k \in 1..(Len(a) + Len(b) - 1) |->
                        SumTo([ i \in 1..Len(a) |-> a[i] * Limb(b, k + 1 - i) ],
                              Len(a)) ], 0))

\* a * 2^k and the whole part of a / 2^k.
ShiftLeft(a, k) ==
    LET q == k \div LIMB_BITS
        r == k % LIMB_BITS
    IN IF a = << >> THEN a
       ELSE [ i \in 1..q |-> 0 ] \o Carry([ i \in 1..Len(a) |-> a[i] * 2^r ], 0)

ShiftRight(a, k) ==
    LET q == k \div LIMB_BITS
        r == k % LIMB_BITS
    IN Trim([ i \in 1..(Len(a) - q) |->
                (a[i + q] \div 2^r)
                  + (Limb(a, i + q + 1) % 2^r) * 2^(LIMB_BITS - r) ])

\* The number of bits of a natural and its bit of weight 2^i.
BitLen(a) ==
    IF a = << >> THEN 0
    ELSE LIMB_BITS * (Len(a) - 1)
           + CHOOSE n \in 1..LIMB_BITS :
                 2^(n - 1) <= a[Len(a)] /\ a[Len(a)] < 2^n

BitAt(a, i) == (Limb(a, (i \div LIMB_BITS) + 1) \div 2^(i % LIMB_BITS)) % 2

\* a * 2^(x - 52) rounded to a double: the bits below the top DBL_MANT_DIG
\* ones are dropped and the rest goes up by one when they are more than
\* half of its last place, or half of it with the last bit kept odd.
DblRound(a, x) ==
    LET n == BitLen(a)
        k == n - DBL_MANT_DIG
        kept == ShiftRight(a, k)
        up == /\ BitAt(a, k - 1) = 1
              /\ \/ \E i \in 0..(k - 2) : BitAt(a, i) = 1
                 \/ BitAt(kept, 0) = 1
        m == IF up THEN Carry(kept, 1) ELSE kept
    IN IF n = 0 THEN [ m |-> << >>, e |-> 0 ]
       ELSE IF k <= 0 THEN [ m |-> ShiftLeft(a, 0 - k), e |-> x + k ]
       ELSE IF BitLen(m) > DBL_MANT_DIG
       THEN [ m |-> ShiftRight(m, 1), e |-> x + k + 1 ]
       ELSE [ m |-> m, e |-> x + k ]

\* x * y and x + y of C on doubles.
DblMul(x, y) == DblRound(MulNat(x.m, y.m), x.e + y.e - (DBL_MANT_DIG - 1))

DblAdd(x, y) ==
    LET hi == IF x.e >= y.e THEN x ELSE y
        lo == IF x.e >= y.e THEN y ELSE x
        d == hi.e - lo.e
    IN IF lo.m = << >> THEN hi
       ELSE IF hi.m = << >> THEN lo
       ELSE IF d > DBL_MANT_DIG + 1 THEN hi
       ELSE DblRound(AddNat(ShiftLeft(hi.m, d), lo.m), lo.e)

\* The double 0x1.<frac>p<exp> of C's hexadecimal notation, frac being its
\* thirteen hexadecimal digits.
Dbl(frac, exp) ==
    LET bit(i) == (frac[13 - (i \div 4)] \div 2^(i % 4)) % 2
        limb(j) == SumTo([ b \in 1..LIMB_BITS |->
                             bit(LIMB_BITS * (j - 1) + b - 1) * 2^(b - 1) ],
                         LIMB_BITS)
    IN [ m |-> << limb(1), limb(2), limb(3), limb(4), 1 >>, e |-> exp ]

\* The double of a small natural.
DblOfInt(n) ==
    IF n = 0 THEN [ m |-> << >>, e |-> 0 ]
    ELSE DblRound(Trim(<< n % LIMB, (n \div LIMB) % LIMB >>),
                  DBL_MANT_DIG - 1)

\* The whole part of a double that is less than LIMB * LIMB: the
\* conversion of C from double to int.
DblToInt(x) ==
    IF x.m = << >> \/ x.e < 0 THEN 0
    ELSE LET a == ShiftRight(x.m, DBL_MANT_DIG - 1 - x.e)
         IN Limb(a, 1) + Limb(a, 2) * LIMB

DblZero == DblOfInt(0)

DblOne == DblOfInt(1)

(***************************************************************************)
(* The ship statistics (shipstats.h): one stat type of each kind of data   *)
(* and the field of ShipStats it addresses.  The header declares the       *)
(* operations; what each does to a field of each kind is taken from the    *)
(* description of the ship stat model, with the amount as the factor that  *)
(* scales an entry.                                                        *)
(***************************************************************************)

\* "#1 is D for double, A for absolute double, I for integer or B for
\* boolean."
SS_DATA_TYPE ==
    [ SS_TYPE_D_SPEED_MOD |-> "D", SS_TYPE_A_ARMOUR_FLAT |-> "A",
      SS_TYPE_I_HIDDEN_JUMP_DETECT |-> "I", SS_TYPE_B_INSTANT_JUMP |-> "B" ]

\* The field of ShipStats of each type: ss_offsetFromType.
ss_offsetFromType ==
    [ SS_TYPE_D_SPEED_MOD |-> "speed_mod",
      SS_TYPE_A_ARMOUR_FLAT |-> "armour_flat",
      SS_TYPE_I_HIDDEN_JUMP_DETECT |-> "misc_hidden_jump_detect",
      SS_TYPE_B_INSTANT_JUMP |-> "misc_instant_jump" ]

\* A ShipStats with the given fields.
ShipStats(speed_mod, armour_flat, hidden_jump_detect, instant_jump) ==
    [ speed_mod |-> speed_mod, armour_flat |-> armour_flat,
      misc_hidden_jump_detect |-> hidden_jump_detect,
      misc_instant_jump |-> instant_jump ]

\* A node of a ShipStatList: d is the d.d or the d.i of the union.
ShipStatList(type, d) == [ type |-> type, d |-> d ]

ss_statsInit == ShipStats(DblOne, DblZero, 0, 0)

\* Relative entries that stack by addition instead of multiplication.
StatsModSingleAdditive(stats, list, amount) ==
    LET f == ss_offsetFromType[list.type]
        kind == SS_DATA_TYPE[list.type]
    IN CASE kind \in { "D", "A" } ->
              [ stats EXCEPT ![f] = DblAdd(@, DblMul(list.d, amount)) ]
         [] kind = "I" ->
              [ stats EXCEPT ![f] =
                  DblToInt(DblAdd(DblOfInt(@),
                                  DblMul(DblOfInt(list.d), amount))) ]
         [] kind = "B" ->
              [ stats EXCEPT ![f] = IF @ # 0 \/ list.d # 0 THEN 1 ELSE 0 ]

\* ss_statsModSingle( stats, list, amount ) for one node of the list.
ss_statsModSingle(stats, list, amount) ==
    LET f == ss_offsetFromType[list.type]
        kind == SS_DATA_TYPE[list.type]
    IN CASE kind = "D" ->
              [ stats EXCEPT ![f] =
                  DblMul(@, DblAdd(DblOne, DblMul(list.d, amount))) ]
         [] kind = "A" ->
              [ stats EXCEPT ![f] = DblAdd(@, DblMul(list.d, amount)) ]
         [] kind = "I" ->
              [ stats EXCEPT ![f] =
                  DblToInt(DblAdd(DblOfInt(@),
                                  DblMul(DblOfInt(list.d), amount))) ]
         [] kind = "B" ->
              [ stats EXCEPT ![f] = IF @ # 0 \/ list.d # 0 THEN 1 ELSE 0 ]

\* ss_statsModFromList( stats, list, amount ): every node, in list order.
RECURSIVE ss_statsModFromList(_, _, _)
ss_statsModFromList(stats, list, amount) ==
    IF list = << >> THEN stats
    ELSE ss_statsModFromList(ss_statsModSingle(stats, Head(list), amount),
                             Tail(list), amount)

\* A merge that copies the booleans of src over those of dest.
StatsMergeCopyBool(dest, src) ==
    ShipStats(DblMul(dest.speed_mod, src.speed_mod),
              DblAdd(dest.armour_flat, src.armour_flat),
              dest.misc_hidden_jump_detect + src.misc_hidden_jump_detect,
              src.misc_instant_jump)

\* ss_statsMerge( dest, src ).
ss_statsMerge(dest, src) ==
    ShipStats(DblMul(dest.speed_mod, src.speed_mod),
              DblAdd(dest.armour_flat, src.armour_flat),
              dest.misc_hidden_jump_detect + src.misc_hidden_jump_detect,
              IF dest.misc_instant_jump # 0 \/ src.misc_instant_jump # 0
              THEN 1 ELSE 0)

\* The latest operation on the aggregate: the aggregate it started from
\* (for a merge, the one the run of merges started from and the one the
\* latest merge started from), the list and the amount applied, and the
\* aggregates merged into it so far, first one first.
StatsOp(op, before, prev, list, amount, merged) ==
    [ op |-> op, before |-> before, prev |-> prev, list |-> list,
      amount |-> amount, merged |-> merged ]

NoStatsOp == StatsOp("none", ss_statsInit, ss_statsInit, << >>, DblOne, << >>)

\* The state after construction of all but the table, the configuration
\* and the situation of the game: the static initialisers of input.c, a
\* player at normal speed, the clock at the start of the session.
EngineInit ==
    /\ repeat_key = 0 - 1
    /\ repeat_keyTimer = 0
    /\ repeat_keyCounter = 0
    /\ input_accelLast = 0
    /\ input_accelButton = 0
    /\ input_mouseTimer = 0 - 1000
    /\ input_mouseCounter = 1
    /\ cursor = TRUE
    /\ player_mouse = << 0, 0 >>
    /\ player_left = 0
    /\ player_right = 0
    /\ player_speed = 1
    /\ paused = FALSE
    /\ hooked = {}
    /\ ev = NoEvent
    /\ calls = << >>
    /\ input_mouseClickLast = 0
    /\ input_lastClicked = NULL
    /\ click = NoClick

\* No ship whose statistics are computed.
NoStats ==
    /\ pilot_stats = ss_statsInit
    /\ ssop = NoStatsOp

\* No scene to click in: no target, the double click within half a second.
NoScene ==
    /\ mouse_doubleclick = 500000
    /\ scene = << >>
    /\ player_target = PLAYER_ID
    /\ nav_planet = 0 - 1
    /\ nav_hyperspace = 0 - 1
    /\ nav_asteroid = NULL

\* No input is handled by the operations on the table alone.
InputIdle ==
    /\ EngineInit
    /\ NoScene
    /\ NoStats
    /\ conf = ConfRepeat
    /\ ctx = Flying
    /\ now = 0
    /\ playerFlags = {}

(***************************************************************************)
(* The registry operations as actions.                                     *)
(***************************************************************************)

\* A registry operation handles no event: it leaves the history of the
\* events empty and the rest of the input state as it is.
NoInput ==
    /\ ev' = NoEvent
    /\ calls' = << >>
    /\ UNCHANGED <<envVars, dispatchVars, mouseVars, clickVars,
                 statVars>>

NoSet ==
    [ name |-> NullName, type |-> "KEYBIND_NULL", key |-> SDLK.UNKNOWN,
      mod |-> NMOD.NONE ]

\* A history record: the call, the name it was given, and what it returned
\* (type, key and mod are the arguments of input_keyAlreadyBound).
Ret(op, name, type, key, mod, rkey, rtype, rmod, rname) ==
    [ op |-> op, name |-> name, type |-> type, key |-> key, mod |-> mod,
      rkey |-> rkey, rtype |-> rtype, rmod |-> rmod, rname |-> rname ]

NoArgsRet(op, name) ==
    Ret(op, name, "KEYBIND_NULL", SDLK.UNKNOWN, NMOD.NONE,
        SDLK.UNKNOWN, "KEYBIND_NULL", NMOD.NONE, NullName)

RegistryInit ==
    /\ input_keybinds = input_init
    /\ lastSet = NoSet
    /\ ret = NoArgsRet("input_init", NullName)
    /\ warned = << >>
    /\ InputIdle

\* lastSet keeps the arguments of a call that named a table entry until an
\* operation other than input_getKeybind follows.
SetKeybind ==
    \E n \in BindNames \cup UnknownNames, ty \in KeybindTypes,
       k \in BindKeys, m \in BindMods :
        LET r == input_setKeybind(input_keybinds, n, ty, k, m) IN
        /\ input_keybinds' = r.kb
        /\ warned' = r.warn
        /\ lastSet' = IF n \in KeybindNames
                      THEN [ name |-> n, type |-> ty, key |-> k, mod |-> m ]
                      ELSE NoSet
        /\ ret' = NoArgsRet("input_setKeybind", n)
        /\ NoInput

\* The caller (input_getKeybindDisplay) presets type and mod.
GetKeybind ==
    \E n \in QueryNames :
        LET r == input_getKeybind(input_keybinds, n, "KEYBIND_NULL", NMOD.NONE)
        IN
        /\ warned' = r.warn
        /\ ret' = Ret("input_getKeybind", n, "KEYBIND_NULL", SDLK.UNKNOWN,
                      NMOD.NONE, r.key, r.type, r.mod, NullName)
        /\ UNCHANGED <<input_keybinds, lastSet>>
        /\ NoInput

SetDefault ==
    \E wasd \in BOOLEAN :
        LET r == input_setDefault(input_keybinds, wasd)
            b == DefaultLastBind[wasd]
        IN
        /\ input_keybinds' = r.kb
        /\ warned' = r.warn
        /\ lastSet' = [ name |-> b[1], type |-> b[2], key |-> b[3],
                        mod |-> b[4] ]
        /\ ret' = NoArgsRet("input_setDefault", NullName)
        /\ NoInput

EnableAll ==
    /\ input_keybinds' = input_enableAll(input_keybinds)
    /\ ret' = NoArgsRet("input_enableAll", NullName)
    /\ warned' = << >>
    /\ lastSet' = NoSet
    /\ NoInput

DisableAll ==
    /\ input_keybinds' = input_disableAll(input_keybinds)
    /\ ret' = NoArgsRet("input_disableAll", NullName)
    /\ warned' = << >>
    /\ lastSet' = NoSet
    /\ NoInput

ToggleEnable ==
    \E n \in BindNames \cup UnknownNames, enable \in BOOLEAN :
        /\ input_keybinds' = input_toggleEnable(input_keybinds, n, enable)
        /\ ret' = NoArgsRet("input_toggleEnable", n)
        /\ warned' = << >>
        /\ lastSet' = NoSet
        /\ NoInput

NextRegistry ==
    \/ SetKeybind
    \/ GetKeybind
    \/ SetDefault
    \/ EnableAll
    \/ DisableAll
    \/ ToggleEnable

SpecRegistry == RegistryInit /\ [][NextRegistry]_vars

(***************************************************************************)
(* input_keyAlreadyBound, a query of the table: applied once to each of    *)
(* the tables that a default layout (or none) and a binding of "accel" and *)
(* of "target_next" leave.                                                 *)
(***************************************************************************)

ConflictBases ==
    { input_init, DefaultTable[FALSE].kb, DefaultTable[TRUE].kb }

ConflictInit ==
    /\ \E base \in ConflictBases, t1 \in KeybindTypes, t2 \in KeybindTypes,
          k1 \in BindKeys, k2 \in BindKeys, m1 \in BindMods, m2 \in BindMods :
           input_keybinds =
               SetKeybinds(base, << << "accel", t1, k1, m1 >>,
                                    << "target_next", t2, k2, m2 >> >>).kb
    /\ lastSet = NoSet
    /\ ret = NoArgsRet("input_setKeybind", "target_next")
    /\ warned = << >>
    /\ InputIdle

KeyAlreadyBound ==
    /\ ret.op # "input_keyAlreadyBound"
    /\ \E ty \in KeybindTypes, k \in BindKeys, m \in BindMods :
        ret' = Ret("input_keyAlreadyBound", NullName, ty, k, m,
                   SDLK.UNKNOWN, "KEYBIND_NULL", NMOD.NONE,
                   input_keyAlreadyBound(input_keybinds, ty, k, m))
    /\ warned' = << >>
    /\ UNCHANGED <<input_keybinds, lastSet>>
    /\ NoInput

NextConflict == KeyAlreadyBound

SpecConflict == ConflictInit /\ [][NextConflict]_vars

(***************************************************************************)
(* Claims about the registry.                                              *)
(***************************************************************************)

\* The latest call was input_getKeybind(n) and the call before it (but
\* for other lookups) was input_setKeybind(n, ...) with n in the table.
GetAfterSet ==
    /\ ret.op = "input_getKeybind"
    /\ lastSet.name = ret.name
    /\ ret.name \in KeybindNames

\* C1 as stated: setKeybind(name, kind, key, mask) and then getKeybind(name)
\* returns exactly (kind, key, mask), for every kind and every mask.
C1_RoundTripExact ==
    GetAfterSet =>
        /\ ret.rtype = lastSet.type
        /\ ret.rkey = lastSet.key
        /\ ret.rmod = lastSet.mod

\* C1 amended: setKeybind(name, kind, key, mask) and then getKeybind(name)
\* returns (kind, key, mask) when kind is Keyboard and (kind, key, Any) for
\* every other kind (Unbound and the joystick kinds), whatever mask was given.
C1_RoundTrip ==
    GetAfterSet =>
        /\ ret.rtype = lastSet.type
        /\ ret.rkey = lastSet.key
        /\ ret.rmod = IF lastSet.type = "KEYBIND_KEYBOARD"
                      THEN lastSet.mod ELSE NMOD.ANY

\* A joystick button was bound with mask Ctrl and read back with mask Any.
C1_Witness ==
    /\ GetAfterSet
    /\ lastSet.type = "KEYBIND_JBUTTON"
    /\ lastSet.mod = NMOD.CTRL
    /\ ret.rtype = "KEYBIND_JBUTTON"
    /\ ret.rmod = NMOD.ANY

\* C2: a setKeybind or getKeybind that names no table entry warns, leaves
\* every entry (kind, key, mask, enabled) as it was and returns normally;
\* getKeybind then returns the sentinel key -1.
C2_UnknownName ==
    [][ ( /\ ret'.op \in { "input_setKeybind", "input_getKeybind" }
          /\ ret'.name \notin KeybindNames )
        => /\ input_keybinds' = input_keybinds
           /\ warned' # << >>
           /\ ret'.op = "input_getKeybind" => ret'.rkey = KeyNotFound
      ]_vars

\* An unknown name was given to input_setKeybind while the table held a
\* bound and disabled entry, and the call warned.
C2_Witness ==
    /\ ret.op = "input_setKeybind"
    /\ ret.name \notin KeybindNames
    /\ warned # << >>
    /\ input_keybinds[1].type = "KEYBIND_JAXISPOS"
    /\ input_keybinds[1].disabled
    /\ input_keybinds[5].type = "KEYBIND_KEYBOARD"

\* Entry k conflicts with (type, key, mod) in the sense of the registry's
\* contract.
Conflicts(k, type, key, mod) ==
    /\ k.type = type
    /\ k.key = key
    /\ \/ type \in JoyTypes
       \/ /\ type = "KEYBIND_KEYBOARD"
          /\ (k.mod = NMOD.ANY \/ mod = NMOD.ANY \/ k.mod = mod)

ConflictSet ==
    { i \in 1..input_numbinds :
        Conflicts(input_keybinds[i], ret.type, ret.key, ret.mod) }

\* C7: findConflict(kind, key, mask) returns the name of the first entry, in
\* table order, of the same kind and key whose mask (for Keyboard) is Any,
\* or equal to mask, or mask is Any; for a joystick kind the masks do not
\* matter; it returns none when there is no such entry and for Unbound.
C7_FindConflict ==
    ret.op = "input_keyAlreadyBound" =>
        /\ ConflictSet = {} => ret.rname = NullName
        /\ ConflictSet # {} =>
              \E i \in ConflictSet :
                  /\ ret.rname = keybind_info[i]
                  /\ \A j \in ConflictSet : i <= j
        /\ ret.type = "KEYBIND_NULL" => ret.rname = NullName

\* A keyboard query with mask Ctrl found three conflicting entries, the
\* first of which is bound with another mask (Any).
C7_Witness ==
    /\ ret.op = "input_keyAlreadyBound"
    /\ ret.type = "KEYBIND_KEYBOARD"
    /\ ret.mod = NMOD.CTRL
    /\ Cardinality(ConflictSet) >= 3
    /\ ret.rname = "accel"
    /\ input_keybinds[1].mod = NMOD.ANY

(***************************************************************************)
(* Events and ticks as actions.                                            *)
(***************************************************************************)

\* The latest session time the clock reaches.
MaxTime == 1500
\* The time of the first input of a session.
StartTime == 1000
\* How far the clock moves between two inputs.
TickSteps == { 250 }
\* The dt of input_update, in ms.
FrameSteps == { 250 }

\* The key, the axis, the button and the hat that send events.
EventKeys == { SDLK.t }
EventAxes == { 0 }
EventButtons == { 0 }
EventHats == { 0 }
\* SDL modifier states of a key event: none, right Ctrl with NumLock, and
\* left Shift.
EventMods == { KMOD.NONE, KMOD.RCTRL \cup KMOD.NUM, KMOD.LSHIFT }
\* Axis values: full negative, centre, half positive.
AxisValues == { 0 - AXIS_MAX, 0, 16384 }
\* Hat values: centred, up, up and right, down, left.
HatValues == { {}, {0}, {0, 1}, {2}, {3} }

SetEngine(S) ==
    /\ repeat_key' = S.repeat_key
    /\ repeat_keyTimer' = S.repeat_keyTimer
    /\ repeat_keyCounter' = S.repeat_keyCounter
    /\ input_accelLast' = S.input_accelLast
    /\ input_accelButton' = S.input_accelButton
    /\ playerFlags' = S.playerFlags
    /\ player_left' = S.player_left
    /\ player_right' = S.player_right
    /\ player_speed' = S.player_speed
    /\ paused' = S.paused
    /\ hooked' = S.hooked
    /\ UNCHANGED <<clickVars, statVars>>

\* An event or a tick is no registry operation: it leaves the table as it
\* is and the history of the registry tells which handler ran.
NoRegistryCall(op) ==
    /\ ret' = NoArgsRet(op, NullName)
    /\ warned' = << >>
    /\ lastSet' = NoSet
    /\ UNCHANGED input_keybinds

\* input_handle( e ) for a keyboard or joystick event: the state of the
\* engine it leaves and the input_key calls it made.
Handled(e) ==
    RunKeys(Engine, input_handle(input_keybinds, e), input_keybinds, ctx,
            conf, now)

KeyEvent ==
    \E type \in { "SDL_KEYDOWN", "SDL_KEYUP" }, key \in EventKeys,
       mod \in EventMods, repeat \in { 0, 1 }, grabbed \in BOOLEAN :
        LET e == Event(type, key, mod, 0, {}, repeat, grabbed) IN
        /\ SetEngine(Handled(e).S)
        /\ calls' = Handled(e).calls
        /\ ev' = e
        /\ NoRegistryCall("input_handle")
        /\ UNCHANGED <<envVars, mouseVars>>

\* The key events of a keyboard with no modifier held.
PlainKeyEvent ==
    \E type \in { "SDL_KEYDOWN", "SDL_KEYUP" }, key \in EventKeys,
       repeat \in { 0, 1 }, grabbed \in BOOLEAN :
        LET e == Event(type, key, KMOD.NONE, 0, {}, repeat, grabbed) IN
        /\ SetEngine(Handled(e).S)
        /\ calls' = Handled(e).calls
        /\ ev' = e
        /\ NoRegistryCall("input_handle")
        /\ UNCHANGED <<envVars, mouseVars>>

JoyAxisEvent ==
    \E axis \in EventAxes, value \in AxisValues, grabbed \in BOOLEAN :
        LET e == Event("SDL_JOYAXISMOTION", axis, {}, value, {}, 0, grabbed)
        IN
        /\ SetEngine(Handled(e).S)
        /\ calls' = Handled(e).calls
        /\ ev' = e
        /\ NoRegistryCall("input_handle")
        /\ UNCHANGED <<envVars, mouseVars>>

JoyButtonEvent ==
    \E type \in { "SDL_JOYBUTTONDOWN", "SDL_JOYBUTTONUP" },
       button \in EventButtons, grabbed \in BOOLEAN :
        LET e == Event(type, button, {}, 0, {}, 0, grabbed) IN
        /\ SetEngine(Handled(e).S)
        /\ calls' = Handled(e).calls
        /\ ev' = e
        /\ NoRegistryCall("input_handle")
        /\ UNCHANGED <<envVars, mouseVars>>

JoyHatEvent ==
    \E hat \in EventHats, value \in HatValues, grabbed \in BOOLEAN :
        LET e == Event("SDL_JOYHATMOTION", hat, {}, 0, value, 0, grabbed) IN
        /\ SetEngine(Handled(e).S)
        /\ calls' = Handled(e).calls
        /\ ev' = e
        /\ NoRegistryCall("input_handle")
        /\ UNCHANGED <<envVars, mouseVars>>

\* input_update( dt ): the cursor timer, then the key repeat.
Update ==
    \E dt \in FrameSteps :
        LET r == input_update(Engine, input_keybinds, ctx, conf, now)
            timer == input_mouseTimer - dt
        IN /\ IF input_mouseTimer > 0
              THEN /\ input_mouseTimer' = timer
                   /\ cursor' = IF timer < 0 /\ input_mouseCounter <= 0
                                THEN FALSE ELSE cursor
              ELSE UNCHANGED <<input_mouseTimer, cursor>>
           /\ SetEngine(r.S)
           /\ calls' = r.calls
           /\ ev' = Event("input_update", 0, {}, dt, {}, 0, FALSE)
           /\ NoRegistryCall("input_update")
           /\ UNCHANGED <<envVars, input_mouseCounter, player_mouse>>

\* Time passes.
Tick ==
    \E dt \in TickSteps :
        /\ now + dt <= MaxTime
        /\ now' = now + dt
        /\ UNCHANGED <<registryVars, conf, ctx, dispatchVars, mouseVars,
                       eventVars, clickVars, statVars>>

(***************************************************************************)
(* The filters, on a table that binds one family of inputs to two actions  *)
(* and more, while bindings are switched off and on.                       *)
(***************************************************************************)

JB(name, type, key) == << name, type, key, NMOD.NONE >>

\* The arrows layout, with in turn: a third action on the key t; two
\* actions on button 0; two on hat 0 up, one on each other direction and
\* one on hat 1 up; two on axis 0 positive and one on axis 0 negative.
\* "target_prev" is in each the binding that ToggleBinding switches.
FilterLayouts ==
    { SetKeybinds(DefaultTable[FALSE].kb, binds).kb : binds \in
        { << KB("target_nearest", SDLK.t, NMOD.ANY) >>,
          << JB("target_prev", "KEYBIND_JBUTTON", 0),
             JB("board", "KEYBIND_JBUTTON", 0) >>,
          << JB("target_prev", "KEYBIND_JHAT_UP", 0),
             JB("target_hostile", "KEYBIND_JHAT_UP", 0),
             JB("weapset1", "KEYBIND_JHAT_DOWN", 0),
             JB("weapset2", "KEYBIND_JHAT_LEFT", 0),
             JB("weapset3", "KEYBIND_JHAT_RIGHT", 0),
             JB("weapset4", "KEYBIND_JHAT_UP", 1) >>,
          << JB("accel", "KEYBIND_JAXISPOS", 0),
             JB("target_prev", "KEYBIND_JAXISPOS", 0),
             JB("left", "KEYBIND_JAXISNEG", 0) >> } }

ToggleNames == { "target_prev" }

ToggleBinding ==
    \E n \in ToggleNames, enable \in BOOLEAN :
        /\ input_keybinds' = input_toggleEnable(input_keybinds, n, enable)
        /\ ret' = NoArgsRet("input_toggleEnable", n)
        /\ warned' = << >>
        /\ lastSet' = NoSet
        /\ NoInput

FilterInit ==
    /\ input_keybinds \in FilterLayouts
    /\ lastSet = NoSet
    /\ ret = NoArgsRet("input_setKeybind", NullName)
    /\ warned = << >>
    /\ EngineInit
    /\ NoScene
    /\ NoStats
    /\ conf = ConfRepeat
    /\ ctx = Flying
    /\ now = StartTime
    /\ playerFlags = {}

NextFilter ==
    \/ KeyEvent
    \/ JoyAxisEvent
    \/ JoyButtonEvent
    \/ JoyHatEvent
    \/ ToggleBinding
    \/ EnableAll
    \/ DisableAll

SpecFilter == FilterInit /\ [][NextFilter]_vars

(***************************************************************************)
(* The dispatcher, for each action bound to the key t, in each situation,  *)
(* with key repeat and double tap on or off, as time passes.               *)
(***************************************************************************)

\* input_init and then one binding of name to the key t.
OneBinding ==
    [ name \in KeybindNames |->
        input_setKeybind(input_init, name, "KEYBIND_KEYBOARD", SDLK.t,
                         NMOD.NONE).kb ]

\* The situation of the game and the player flags input_key reads but
\* does not write: each context, and flying in a 2x cinematic.
Situations ==
    { << c, {} >> : c \in Contexts } \cup
    { << Flying, { "PLAYER_CINEMATICS_2X" } >> }

InputInit ==
    /\ \E name \in KeybindNames : input_keybinds = OneBinding[name]
    /\ lastSet = NoSet
    /\ ret = NoArgsRet("input_setKeybind", NullName)
    /\ warned = << >>
    /\ EngineInit
    /\ NoScene
    /\ NoStats
    /\ conf \in { ConfRepeat, ConfOff }
    /\ \E s \in Situations : ctx = s[1] /\ playerFlags = s[2]
    /\ now = StartTime

NextInput ==
    \/ PlainKeyEvent
    \/ Update
    \/ Tick

SpecInput == InputInit /\ [][NextInput]_vars

(***************************************************************************)
(* Key repeat while the options menu changes conf.repeat_delay: one action *)
(* on the key t, flying, with the events the game itself receives.         *)
(***************************************************************************)

RepeatDelays == { 0, ConfRepeat.repeat_delay }

\* The options menu stores another repeat delay in conf.
SetRepeatDelay ==
    \E d \in RepeatDelays :
        /\ d # conf.repeat_delay
        /\ conf' = [ conf EXCEPT !.repeat_delay = d ]
        /\ UNCHANGED <<registryVars, ctx, now, dispatchVars, mouseVars,
                       eventVars, clickVars, statVars>>

RepeatNames == { "accel", "target_next", "board" }

RepeatInit ==
    /\ \E name \in RepeatNames : input_keybinds = OneBinding[name]
    /\ lastSet = NoSet
    /\ ret = NoArgsRet("input_setKeybind", NullName)
    /\ warned = << >>
    /\ EngineInit
    /\ NoScene
    /\ NoStats
    /\ conf = ConfRepeat
    /\ ctx = Flying
    /\ playerFlags = {}
    /\ now = StartTime

NextRepeat ==
    \/ PlainKeyEvent
    \/ Update
    \/ Tick
    \/ SetRepeatDelay

SpecRepeat == RepeatInit /\ [][NextRepeat]_vars

(***************************************************************************)
(* The movement actions on every family of inputs: tables that bind accel, *)
(* left, right and reverse to the key t, the button 0, the hat 0 and the   *)
(* axis 0, with an action that repeats and one input_key has no branch     *)
(* for, in the situations the double tap tells apart.                      *)
(***************************************************************************)

MoveKeyboard ==
    << KB("accel", SDLK.t, NMOD.ANY), JB("reverse", "KEYBIND_JBUTTON", 0) >>
MoveAxis ==
    << JB("accel", "KEYBIND_JAXISPOS", 0), JB("left", "KEYBIND_JAXISNEG", 0),
       JB("right", "KEYBIND_JBUTTON", 0) >>
MoveHat ==
    << JB("accel", "KEYBIND_JHAT_UP", 0), JB("left", "KEYBIND_JHAT_LEFT", 0),
       JB("switchtab1", "KEYBIND_JHAT_DOWN", 0) >>
MoveButton ==
    << JB("accel", "KEYBIND_JBUTTON", 0), KB("left", SDLK.t, NMOD.ANY) >>
MoveTarget ==
    << KB("target_next", SDLK.t, NMOD.ANY), JB("left", "KEYBIND_JBUTTON", 0) >>

InWindow == Ctx(TRUE, FALSE, TRUE, {}, FALSE)
InHyperspace == Ctx(FALSE, FALSE, TRUE, { "PILOT_HYPERSPACE" }, FALSE)
Dead == Ctx(FALSE, FALSE, TRUE, { "PILOT_DEAD" }, FALSE)

\* The bindings, the configuration and the situation of each run: accel on
\* the key t with key repeat and double tap on while flying, in a window,
\* in hyperspace and dead, and with both off; the other tables flying.
MoveSetups ==
    { << MoveKeyboard, ConfRepeat, Flying >>,
      << MoveKeyboard, ConfRepeat, InWindow >>,
      << MoveKeyboard, ConfRepeat, InHyperspace >>,
      << MoveKeyboard, ConfRepeat, Dead >>,
      << MoveKeyboard, ConfOff, Flying >>,
      << MoveAxis, ConfRepeat, Flying >>,
      << MoveHat, ConfRepeat, Flying >>,
      << MoveButton, ConfRepeat, Flying >>,
      << MoveTarget, ConfRepeat, Flying >>,
      << MoveTarget, ConfRepeat, InWindow >> }

MoveInit ==
    /\ \E s \in MoveSetups :
          /\ input_keybinds = SetKeybinds(input_init, s[1]).kb
          /\ conf = s[2]
          /\ ctx = s[3]
    /\ lastSet = NoSet
    /\ ret = NoArgsRet("input_setKeybind", NullName)
    /\ warned = << >>
    /\ EngineInit
    /\ NoScene
    /\ NoStats
    /\ playerFlags = {}
    /\ now = StartTime

NextMove ==
    \/ PlainKeyEvent
    \/ JoyAxisEvent
    \/ JoyButtonEvent
    \/ JoyHatEvent
    \/ Update
    \/ Tick

SpecMove == MoveInit /\ [][NextMove]_vars

(***************************************************************************)
(* Key repeat while bindings are switched off and on: one action on the    *)
(* key t, flying, with the frames of the game.                             *)
(***************************************************************************)

DisableNames == { "target_prev", "accel", "board" }

DisableInit ==
    /\ \E name \in DisableNames : input_keybinds = OneBinding[name]
    /\ lastSet = NoSet
    /\ ret = NoArgsRet("input_setKeybind", NullName)
    /\ warned = << >>
    /\ EngineInit
    /\ NoScene
    /\ NoStats
    /\ conf = ConfRepeat
    /\ ctx = Flying
    /\ playerFlags = {}
    /\ now = StartTime

NextDisable ==
    \/ PlainKeyEvent
    \/ Update
    \/ Tick
    \/ ToggleBinding
    \/ EnableAll
    \/ DisableAll

SpecDisable == DisableInit /\ [][NextDisable]_vars

(***************************************************************************)
(* The default layouts, arrows and WASD, under keys that they bind to more *)
(* than one action, with the modifiers the layouts ask for.                *)
(***************************************************************************)

\* The keys s, j and 1.
DefaultKeys == { SDLK.s, SDLK.j, SDLK.n1 }
\* No modifier, left Ctrl, left Alt.
DefaultMods == { KMOD.NONE, KMOD.LCTRL, KMOD.LALT }

DefaultInit ==
    /\ \E wasd \in BOOLEAN : input_keybinds = DefaultTable[wasd].kb
    /\ lastSet = NoSet
    /\ ret = NoArgsRet("input_setDefault", NullName)
    /\ warned = << >>
    /\ EngineInit
    /\ NoScene
    /\ NoStats
    /\ conf = ConfRepeat
    /\ ctx = Flying
    /\ playerFlags = {}
    /\ now = StartTime

DefaultKeyEvent ==
    \E type \in { "SDL_KEYDOWN", "SDL_KEYUP" }, key \in DefaultKeys,
       mod \in DefaultMods :
        LET e == Event(type, key, mod, 0, {}, 0, FALSE) IN
        /\ SetEngine(Handled(e).S)
        /\ calls' = Handled(e).calls
        /\ ev' = e
        /\ NoRegistryCall("input_handle")
        /\ UNCHANGED <<envVars, mouseVars>>

NextDefault ==
    \/ DefaultKeyEvent

SpecDefault == DefaultInit /\ [][NextDefault]_vars

(***************************************************************************)
(* Clicks as actions: a scene with two spots to click on, the second one   *)
(* right on another pilot.                                                 *)
(***************************************************************************)

\* The click state as the handlers take it.
ClickNow ==
    ClickState(player_target, nav_planet, nav_hyperspace, nav_asteroid,
               input_lastClicked, input_mouseClickLast)

\* case SDL_MOUSEBUTTONDOWN of input_handle, after the cursor is shown:
\* the toolkit absorbs a mouse event when it is open; the overlay or the
\* GUI may take it; input_clickevent runs the "mouse" hook first.
HandleClick(C, w, dc, t, c, pf, button, grabbed) ==
    IF c.toolkit \/ grabbed THEN [ C |-> C, ret |-> 0 - 1, hooks |-> << >> ]
    ELSE LET r == input_clickevent(C, w, dc, t, c, pf, button) IN
         [ C |-> r.C, ret |-> r.ret,
           hooks |-> << [ name |-> "mouse", button |-> button ] >> ]

SetClickState(C) ==
    /\ player_target' = C.target
    /\ nav_planet' = C.nav_planet
    /\ nav_hyperspace' = C.nav_hyperspace
    /\ nav_asteroid' = C.nav_asteroid
    /\ input_lastClicked' = C.input_lastClicked
    /\ input_mouseClickLast' = C.input_mouseClickLast

MouseButtons == { "SDL_BUTTON_LEFT", "SDL_BUTTON_MIDDLE", "SDL_BUTTON_RIGHT" }

MouseButtonDown ==
    \E spot \in DOMAIN scene, button \in MouseButtons, grabbed \in BOOLEAN :
        LET r == HandleClick(ClickNow, scene[spot], mouse_doubleclick, now,
                             ctx, playerFlags, button, grabbed)
        IN /\ input_mouseTimer' = MOUSE_HIDE
           /\ cursor' = TRUE
           /\ SetClickState(r.C)
           /\ click' = Click(button, spot, grabbed, now, r.hooks, ClickNow,
                             r.C, r.ret)
           /\ ev' = Event("SDL_MOUSEBUTTONDOWN", 0, {}, 0, {}, 0, grabbed)
           /\ calls' = << >>
           /\ NoRegistryCall("input_handle")
           /\ UNCHANGED <<envVars, dispatchVars, input_mouseCounter,
                          player_mouse, mouse_doubleclick, scene, statVars>>

\* The player at the origin, pilot 2 at (x, y) and pilot 3 at (500, 500);
\* the sprites are 50 wide, which makes rp 30 at zoom 1.
Pilots(x, y) ==
    (PLAYER_ID :> Pilot(0, 0, 50)) @@ (2 :> Pilot(x, y, 50))
        @@ (3 :> Pilot(500, 500, 50))

\* Nothing by angle: no pilot and no asset, both at the angle M_PI.
NoAngP == AngP(PLAYER_ID, M_PI)
NoAngA == Asset("none", 0, 0 - 1, M_PI, 0, 0, 0, 0)

\* An asset of the scene at the angle dev or at the distance off from the
\* click: planet 0 and jump 0 of radius 20, asteroid 0 of field 0 with a
\* gfx of 30 x 20 (r is 30 at zoom 1 for each), or none.
SceneAsset(kind, dev, off) ==
    CASE kind = "planet" -> Asset(kind, 0, 0, dev, pow2(off), 20, 0, 0)
      [] kind = "jump" -> Asset(kind, 0, 0, dev, pow2(off), 20, 0, 0)
      [] kind = "asteroid" -> Asset(kind, 0, 0, dev, pow2(off), 0, 30, 20)
      [] OTHER -> NoAngA

\* A click inside the screen at (x, 0) in the game, with pilot 2 at po
\* from it and the asset found at ao from it.
PosSpot(x, po, kind, ao, invzoom, ok, able) ==
    Spot(400, 300, x, 0, invzoom, NoAngP, NoAngA, FALSE,
         Pilots(x + po, 0), SceneAsset(kind, 0, ao), ok, able)

\* The same at (x, y), far from the ship.
FarSpot(x, y, po, kind, ok) ==
    Spot(400, 300, x, y, 10, NoAngP, NoAngA, FALSE, Pilots(x + po, y),
         SceneAsset(kind, 0, 20), ok, TRUE)

\* A click at (mx, my) of the window, with the pilot pid at the angle devP
\* and the asset at the angle devA from the bearing of the mouse, and
\* pilot 2 at po from the click in the game.
BorderSpot(mx, my, pid, devP, kind, devA, po, ok) ==
    Spot(mx, my, mx - 400, my - 300, 10,
         IF pid = PLAYER_ID THEN NoAngP ELSE AngP(pid, devP),
         SceneAsset(kind, devA, 0), FALSE, Pilots(mx - 400 + po, my - 300),
         NoAsset, ok, TRUE)

\* The other spot of every scene: a click right on pilot 3.
OnPilot3 ==
    Spot(400, 300, 500, 500, 10, NoAngP, NoAngA, FALSE, Pilots(0, 500),
         NoAsset, TRUE, TRUE)

\* The radar takes the click.
OnRadar ==
    Spot(400, 300, 100, 0, 10, NoAngP, NoAngA, TRUE, Pilots(100, 0),
         NoAsset, TRUE, TRUE)

AssetKinds == { "planet", "jump", "asteroid" }

\* conf.mouse_doubleclick: negative, zero, half a millisecond, and a
\* quarter of a second and half a millisecond.
DoubleClickConfs == { 0 - 500000, 0, 500, 250500 }

\* Spots to click twice: right on pilot 2, or on an asset with pilot 2 out
\* of reach.
DoubleClickSpots ==
    { PosSpot(100, 0, "none", 0, 10, TRUE, able) : able \in BOOLEAN } \cup
    { PosSpot(100, 31, kind, 0, 10, TRUE, able) :
        kind \in AssetKinds, able \in BOOLEAN }

\* Spots for the choice by distance: pilot 2 inside, on and outside its
\* radius, with no asset or an asset nearer, as near, on and outside its
\* radius; an unknown planet; a jump point that is not usable; other zooms.
PosSpots ==
    { PosSpot(100, po, "none", 0, 10, TRUE, TRUE) : po \in { 20, 30, 31 } }
    \cup { PosSpot(100, po, "planet", ao, 10, TRUE, TRUE) :
             po \in { 20, 30, 31 }, ao \in { 10, 20, 30, 31 } }
    \cup { PosSpot(100, po, kind, ao, 10, TRUE, TRUE) :
             po \in { 20, 31 }, kind \in { "jump", "asteroid" },
             ao \in { 10, 31 } }
    \cup { PosSpot(100, po, "planet", 20, 10, FALSE, TRUE) :
             po \in { 20, 31 } }
    \cup { PosSpot(100, 31, "jump", 20, 10, FALSE, TRUE) }
    \cup { PosSpot(100, po, "planet", ao, invzoom, TRUE, TRUE) :
             po \in { 31, 60, 61 }, ao \in { 31, 60, 61 },
             invzoom \in { 15, 20 } }

\* Spots far from the ship: short of 1500, at 1500 (twice), beyond it;
\* with a planet, known or not, and beyond it a jump point not usable.
FarSpots ==
    { FarSpot(xy[1], xy[2], po, kind, ok) :
        xy \in { << 1499, 0 >>, << 1500, 0 >>, << 900, 1200 >>,
                 << 1501, 0 >>, << 2000, 0 >> },
        po \in { 20, 31 }, kind \in { "none", "planet" }, ok \in BOOLEAN }
    \cup { FarSpot(2000, 0, 31, "jump", FALSE) }

\* Angles around M_PI / 64 = 49087.38... microradians.
PilotAngles == { 10000, 0 - 10000, 49087, 49088 }
AssetAngles == { 20000, 0 - 5000, 10000, 49087, 49088 }

\* Spots in the border: each pilot angle with each asset angle, the other
\* kinds of asset, no pilot, no asset, an unknown planet, the other
\* borders, and the first pixel that is not in the border.
BorderSpots ==
    { BorderSpot(15, 300, pid, devP, "planet", devA, 31, TRUE) :
        pid \in { 2, 3 }, devP \in PilotAngles, devA \in AssetAngles }
    \cup { BorderSpot(15, 300, 2, devP, kind, 20000, 31, TRUE) :
             devP \in PilotAngles, kind \in { "jump", "asteroid", "none" } }
    \cup { BorderSpot(15, 300, PLAYER_ID, 0, kind, devA, 31, TRUE) :
             kind \in AssetKinds, devA \in { 20000, 49088 } }
    \cup { BorderSpot(15, 300, 2, devP, "planet", 20000, po, FALSE) :
             devP \in { 10000, 49088 }, po \in { 0, 31 } }
    \cup { BorderSpot(m[1], m[2], 2, 10000, "planet", 20000, 31, TRUE) :
             m \in { << 400, 15 >>, << 785, 300 >>, << 400, 585 >>,
                     << 16, 300 >>, << 784, 584 >> } }

\* The scenes: a spot, the spot on pilot 3 and the threshold of the double
\* click.
Scenes ==
    { [ scene |-> << w, OnPilot3 >>, dc |-> dc ] :
        w \in DoubleClickSpots, dc \in DoubleClickConfs }
    \cup { [ scene |-> << w, OnPilot3 >>, dc |-> 250500 ] :
             w \in PosSpots \cup FarSpots \cup BorderSpots \cup { OnRadar } }

\* The situations a click is handled in: flying, a window open, dead, no
\* ship, the ship destroyed.
ClickSituations ==
    { << Flying, {} >>,
      << Ctx(TRUE, FALSE, TRUE, {}, FALSE), {} >>,
      << Ctx(FALSE, FALSE, TRUE, { "PILOT_DEAD" }, FALSE), {} >>,
      << Ctx(TRUE, FALSE, FALSE, {}, FALSE), {} >>,
      << Flying, { "PLAYER_DESTROYED" } >> }

ClickInit ==
    /\ input_keybinds = DefaultTable[FALSE].kb
    /\ NoStats
    /\ lastSet = NoSet
    /\ ret = NoArgsRet("input_setDefault", NullName)
    /\ warned = << >>
    /\ EngineInit
    /\ conf = ConfRepeat
    /\ now = StartTime
    /\ \E sc \in Scenes, s \in ClickSituations :
          /\ s = << Flying, {} >> \/ sc.scene[1] = PosSpot(100, 0, "none", 0,
                                                          10, TRUE, TRUE)
          /\ scene = sc.scene
          /\ mouse_doubleclick = sc.dc
          /\ ctx = s[1]
          /\ playerFlags = s[2]
    /\ player_target = PLAYER_ID
    /\ nav_planet = 0 - 1
    /\ nav_hyperspace = 0 - 1
    /\ nav_asteroid = NULL

NextClick ==
    \/ MouseButtonDown
    \/ Tick

SpecClick == ClickInit /\ [][NextClick]_vars

(***************************************************************************)
(* input_handle for keys and for the mouse, with a window open or not and  *)
(* events that the toolkit, the overlay or the GUI take or leave: the      *)
(* arrows layout, a spot on pilot 2 and one on pilot 3.                    *)
(***************************************************************************)

\* Where the mouse moves to, after gl_windowToScreenPos.
MousePositions == { << 400, 300 >>, << 15, 300 >> }

\* case SDL_MOUSEMOTION of input_handle: the cursor is shown; the toolkit
\* absorbs the event when it is open, the overlay or the GUI may take it,
\* and else input_mouseMove stores the position.
MouseMotion ==
    \E pos \in MousePositions, grabbed \in BOOLEAN :
        /\ input_mouseTimer' = MOUSE_HIDE
        /\ cursor' = TRUE
        /\ player_mouse' = IF ctx.toolkit \/ grabbed THEN player_mouse
                                                     ELSE pos
        /\ ev' = Event("SDL_MOUSEMOTION", 0, {}, 0, {}, 0, grabbed)
        /\ calls' = << >>
        /\ NoRegistryCall("input_handle")
        /\ UNCHANGED <<envVars, dispatchVars, input_mouseCounter, clickVars,
                       statVars>>

HandleInit ==
    /\ input_keybinds = DefaultTable[FALSE].kb
    /\ NoStats
    /\ lastSet = NoSet
    /\ ret = NoArgsRet("input_setDefault", NullName)
    /\ warned = << >>
    /\ EngineInit
    /\ conf = ConfRepeat
    /\ now = StartTime
    /\ ctx \in { Flying, InWindow }
    /\ playerFlags = {}
    /\ scene = << PosSpot(100, 0, "none", 0, 10, TRUE, TRUE), OnPilot3 >>
    /\ mouse_doubleclick = 250500
    /\ player_target = PLAYER_ID
    /\ nav_planet = 0 - 1
    /\ nav_hyperspace = 0 - 1
    /\ nav_asteroid = NULL

NextHandle ==
    \/ PlainKeyEvent
    \/ MouseButtonDown
    \/ MouseMotion

SpecHandle == HandleInit /\ [][NextHandle]_vars

(***************************************************************************)
(* The cursor: input_mouseShow and input_mouseHide, the mouse moving, and  *)
(* the frames of the game, of a length that divides MOUSE_HIDE and of one  *)
(* that does not.                                                          *)
(***************************************************************************)

\* The most input_mouseShow calls that are not yet undone.
MaxMouseCounter == 2
\* The dt of input_update, in ms: a third and two thirds of MOUSE_HIDE.
CursorSteps == { 1000, 2000 }

\* input_mouseShow
MouseShow ==
    /\ input_mouseCounter < MaxMouseCounter
    /\ cursor' = TRUE
    /\ input_mouseCounter' = input_mouseCounter + 1
    /\ ev' = NoEvent
    /\ calls' = << >>
    /\ NoRegistryCall("input_mouseShow")
    /\ UNCHANGED <<envVars, dispatchVars, input_mouseTimer, player_mouse,
                   clickVars, statVars>>

\* input_mouseHide
MouseHide ==
    /\ IF input_mouseCounter - 1 <= 0
       THEN input_mouseTimer' = MOUSE_HIDE /\ input_mouseCounter' = 0
       ELSE /\ input_mouseCounter' = input_mouseCounter - 1
            /\ UNCHANGED input_mouseTimer
    /\ ev' = NoEvent
    /\ calls' = << >>
    /\ NoRegistryCall("input_mouseHide")
    /\ UNCHANGED <<envVars, dispatchVars, cursor, player_mouse, clickVars,
                   statVars>>

\* input_update( dt ) for each of CursorSteps.
UpdateFrame ==
    \E dt \in CursorSteps :
        LET r == input_update(Engine, input_keybinds, ctx, conf, now)
            timer == input_mouseTimer - dt
        IN /\ IF input_mouseTimer > 0
              THEN /\ input_mouseTimer' = timer
                   /\ cursor' = IF timer < 0 /\ input_mouseCounter <= 0
                                THEN FALSE ELSE cursor
              ELSE UNCHANGED <<input_mouseTimer, cursor>>
           /\ SetEngine(r.S)
           /\ calls' = r.calls
           /\ ev' = Event("input_update", 0, {}, dt, {}, 0, FALSE)
           /\ NoRegistryCall("input_update")
           /\ UNCHANGED <<envVars, input_mouseCounter, player_mouse>>

CursorInit ==
    /\ input_keybinds = DefaultTable[FALSE].kb
    /\ lastSet = NoSet
    /\ ret = NoArgsRet("input_setDefault", NullName)
    /\ warned = << >>
    /\ EngineInit
    /\ NoScene
    /\ NoStats
    /\ conf = ConfRepeat
    /\ ctx \in { Flying, InWindow }
    /\ playerFlags = {}
    /\ now = StartTime

NextCursor ==
    \/ MouseShow
    \/ MouseHide
    \/ MouseMotion
    \/ UpdateFrame

SpecCursor == CursorInit /\ [][NextCursor]_vars

\* The game keeps calling input_update.
SpecCursorFair == SpecCursor /\ WF_vars(UpdateFrame)

(***************************************************************************)
(* The ship statistics as actions: an aggregate is initialised, a list of  *)
(* entries is applied to it and other aggregates are merged into it, each  *)
(* of them once.                                                           *)
(***************************************************************************)

\* The doubles 0.10, 0.15, 0.20, 0.30, 0.5, 1.20 and 1.21 of a data file or
\* of the C source, in the hexadecimal notation of C: 0x1.999999999999ap-4
\* and so on.
D_0_10 == Dbl(<< 9, 9, 9, 9, 9, 9, 9, 9, 9, 9, 9, 9, 10 >>, 0 - 4)
D_0_15 == Dbl(<< 3, 3, 3, 3, 3, 3, 3, 3, 3, 3, 3, 3, 3 >>, 0 - 3)
D_0_20 == Dbl(<< 9, 9, 9, 9, 9, 9, 9, 9, 9, 9, 9, 9, 10 >>, 0 - 3)
D_0_30 == Dbl(<< 3, 3, 3, 3, 3, 3, 3, 3, 3, 3, 3, 3, 3 >>, 0 - 2)
D_0_50 == Dbl(<< 0, 0, 0, 0, 0, 0, 0, 0, 0, 0, 0, 0, 0 >>, 0 - 1)
D_1_20 == Dbl(<< 3, 3, 3, 3, 3, 3, 3, 3, 3, 3, 3, 3, 3 >>, 0)
D_1_21 == Dbl(<< 3, 5, 12, 2, 8, 15, 5, 12, 2, 8, 15, 5, 12 >>, 0)

SpeedMod(d) == ShipStatList("SS_TYPE_D_SPEED_MOD", d)
ArmourFlat(d) == ShipStatList("SS_TYPE_A_ARMOUR_FLAT", d)
HiddenJumpDetect(i) == ShipStatList("SS_TYPE_I_HIDDEN_JUMP_DETECT", i)
InstantJump == ShipStatList("SS_TYPE_B_INSTANT_JUMP", 1)

MaxStatList == 3

\* The lists of up to MaxStatList relative entries of +10% and +15%, and
\* lists with entries of the other kinds.
RelativeLists ==
    UNION { [ 1..n -> { SpeedMod(D_0_10), SpeedMod(D_0_15) } ] :
              n \in 1..MaxStatList }

MixedLists ==
    { << ArmourFlat(D_0_30), HiddenJumpDetect(1) >>,
      << SpeedMod(D_0_10), ArmourFlat(D_0_30), InstantJump >>,
      << HiddenJumpDetect(3), ArmourFlat(DblOfInt(5)), HiddenJumpDetect(2),
         SpeedMod(D_0_20) >> }

StatLists == RelativeLists \cup MixedLists

\* The full amount and half of it.
StatAmounts == { DblOne, D_0_50 }

\* The aggregates of three outfits, one of them with no stat at all.
StatSources ==
    { ss_statsModFromList(ss_statsInit, list, DblOne) : list \in
        { << >>,
          << SpeedMod(D_0_10), ArmourFlat(D_0_10), HiddenJumpDetect(1) >>,
          << SpeedMod(D_0_15), ArmourFlat(D_0_20), InstantJump >> } }

StatsInit ==
    /\ ssop.op # "none"
    /\ pilot_stats' = ss_statsInit
    /\ ssop' = StatsOp("ss_statsInit", pilot_stats, pilot_stats, << >>,
                       DblOne, << >>)
    /\ UNCHANGED <<registryVars, inputVars, clickVars>>

\* A list is applied to a freshly initialised aggregate.
StatsModFromList ==
    \E list \in StatLists, amount \in StatAmounts :
        /\ ssop.op \in { "none", "ss_statsInit" }
        /\ pilot_stats' = ss_statsModFromList(pilot_stats, list, amount)
        /\ ssop' = StatsOp("ss_statsModFromList", pilot_stats, pilot_stats,
                           list, amount, << >>)
        /\ UNCHANGED <<registryVars, inputVars, clickVars>>

\* An aggregate that was not merged in yet is merged in.
StatsMerge ==
    \E src \in StatSources :
        /\ \A i \in DOMAIN ssop.merged : ssop.merged[i] # src
        /\ pilot_stats' = ss_statsMerge(pilot_stats, src)
        /\ ssop' = StatsOp("ss_statsMerge",
                           IF ssop.op = "ss_statsMerge" THEN ssop.before
                           ELSE pilot_stats,
                           pilot_stats, << >>, DblOne,
                           Append(ssop.merged, src))
        /\ UNCHANGED <<registryVars, inputVars, clickVars>>

\* The input idle and a freshly initialised aggregate.
StatInit == RegistryInit

NextStats ==
    \/ StatsInit
    \/ StatsModFromList
    \/ StatsMerge

SpecStats == StatInit /\ [][NextStats]_vars

(***************************************************************************)
(* Claims about the event filters.                                         *)
(***************************************************************************)

KeyboardEvent == ev.type \in { "SDL_KEYDOWN", "SDL_KEYUP" }

\* The latest event got to its filter: nothing grabbed it and it is no
\* auto-repeat.
Filtered == ~ev.grabbed /\ ev.repeat = 0 /\ ev.type # "input_update"

\* The positions in calls of the input_key calls for table entry i.
CallsTo(i) == { j \in 1..Len(calls) : calls[j].keynum = i }

\* The table entries whose input the latest event releases.
ReleaseTargets ==
    { i \in 1..input_numbinds :
        LET k == input_keybinds[i] IN
        /\ k.key = ev.id
        /\ \/ ev.type = "SDL_KEYUP" /\ k.type = "KEYBIND_KEYBOARD"
           \/ ev.type = "SDL_JOYBUTTONUP" /\ k.type = "KEYBIND_JBUTTON"
           \/ /\ ev.type = "SDL_JOYHATMOTION"
              /\ k.type \in DOMAIN SDL_HAT
              /\ ev.hat \cap SDL_HAT[k.type] = {}
           \/ /\ ev.type = "SDL_JOYAXISMOTION"
              /\ ev.value = 0
              /\ k.type \in { "KEYBIND_JAXISPOS", "KEYBIND_JAXISNEG" } }

\* The table entries whose input the latest event presses (for a key, with
\* the modifiers the entry asks for).
PressTargets ==
    { i \in 1..input_numbinds :
        LET k == input_keybinds[i] IN
        /\ k.key = ev.id
        /\ \/ /\ ev.type = "SDL_KEYDOWN"
              /\ k.type = "KEYBIND_KEYBOARD"
              /\ k.mod \in { input_translateMod(ev.mod), NMOD.ANY }
           \/ ev.type = "SDL_JOYBUTTONDOWN" /\ k.type = "KEYBIND_JBUTTON"
           \/ /\ ev.type = "SDL_JOYHATMOTION"
              /\ k.type \in DOMAIN SDL_HAT
              /\ ev.hat \cap SDL_HAT[k.type] # {}
           \/ /\ ev.type = "SDL_JOYAXISMOTION"
              /\ \/ ev.value > 0 /\ k.type = "KEYBIND_JAXISPOS"
                 \/ ev.value < 0 /\ k.type = "KEYBIND_JAXISNEG" }

\* C3: in the four event families a release (key up, button up, hat
\* direction cleared, axis back at 0) is dispatched to every binding of that
\* input, disabled or not: the release that follows a binding being disabled
\* while its input is held still reaches the action handler.
C3_ReleaseOfDisabledDispatched ==
    Filtered =>
        \A i \in ReleaseTargets :
            \E j \in CallsTo(i) : calls[j].value = KEY_RELEASE

\* An axis came back to 0 and its release was dispatched to a binding that
\* is disabled and was the held one when the release came.
C3_Witness ==
    /\ Filtered
    /\ ev.type = "SDL_JOYAXISMOTION"
    /\ \E i \in ReleaseTargets :
        /\ input_keybinds[i].disabled
        /\ \E j \in CallsTo(i) :
              calls[j].value = KEY_RELEASE /\ calls[j].held

\* C4: in the four event families a press is not dispatched to a matching
\* binding that is disabled and is dispatched to every matching binding
\* that is enabled, in the same scan.
C4_PressOfDisabledSuppressed ==
    Filtered =>
        \A i \in PressTargets :
            IF input_keybinds[i].disabled
            THEN CallsTo(i) = {}
            ELSE \E j \in CallsTo(i) : calls[j].value = KEY_PRESS

\* A hat was pushed to a direction bound to a disabled and to an enabled
\* binding: only the enabled one was dispatched.
C4_Witness ==
    /\ Filtered
    /\ ev.type = "SDL_JOYHATMOTION"
    /\ \E i \in PressTargets, k \in PressTargets :
        /\ input_keybinds[i].disabled
        /\ CallsTo(i) = {}
        /\ ~input_keybinds[k].disabled
        /\ CallsTo(k) # {}

\* The bindings a keyboard event with key ev.id and modifiers ev.mod is to
\* be dispatched to.
KeyMatches ==
    { i \in 1..input_numbinds :
        LET b == input_keybinds[i] IN
        /\ b.type = "KEYBIND_KEYBOARD"
        /\ b.key = ev.id
        /\ ~(b.disabled /\ ev.type = "SDL_KEYDOWN")
        /\ \/ b.mod = input_translateMod(ev.mod)
           \/ b.mod = NMOD.ANY
           \/ ev.type = "SDL_KEYUP" }

\* C5: a keyboard event with key k and translated mask m is dispatched to
\* binding b exactly when b is of kind Keyboard, b.key = k, b is not
\* (disabled and the event a press), and b.mask = m or b.mask = Any or the
\* event is a release.
C5_KeyboardDispatchRule ==
    (KeyboardEvent /\ Filtered) =>
        \A i \in 1..input_numbinds : (CallsTo(i) # {}) <=> (i \in KeyMatches)

\* A press of t with right Ctrl and NumLock was dispatched to the binding
\* with mask Ctrl and not to the binding of the same key with mask None.
C5_Witness ==
    /\ KeyboardEvent /\ Filtered
    /\ ev.type = "SDL_KEYDOWN"
    /\ ev.mod = KMOD.RCTRL \cup KMOD.NUM
    /\ \E i \in KeyMatches : input_keybinds[i].mod = NMOD.CTRL
    /\ \E i \in 1..input_numbinds :
        /\ input_keybinds[i].type = "KEYBIND_KEYBOARD"
        /\ input_keybinds[i].key = ev.id
        /\ input_keybinds[i].mod = NMOD.NONE
        /\ ~input_keybinds[i].disabled
        /\ CallsTo(i) = {}

\* C6: when a keyboard event matches several bindings, each of them is
\* dispatched exactly once, in table order.
C6_AllMatchesInTableOrder ==
    (KeyboardEvent /\ Filtered) =>
        /\ \A i \in KeyMatches : Cardinality(CallsTo(i)) = 1
        /\ Len(calls) = Cardinality(KeyMatches)
        /\ \A j \in 1..Len(calls), k \in 1..Len(calls) :
              j < k => calls[j].keynum < calls[k].keynum

\* One press was dispatched to two bindings.
C6_Witness ==
    /\ KeyboardEvent /\ Filtered
    /\ ev.type = "SDL_KEYDOWN"
    /\ Cardinality(KeyMatches) >= 2
    /\ Len(calls) >= 2

\* Two axis events in a row on the same axis, both seen by the game.
AxisStep ==
    /\ ev.type = "SDL_JOYAXISMOTION"
    /\ ev'.type = "SDL_JOYAXISMOTION"
    /\ ev'.id = ev.id
    /\ ~ev.grabbed
    /\ ~ev'.grabbed

\* The later event made an input_key call with KEY_RELEASE for every
\* binding of the given side of its axis.
AxisSideReleased(side) ==
    \A i \in 1..input_numbinds :
        (input_keybinds[i].type = side /\ input_keybinds[i].key = ev'.id)
        => \E j \in DOMAIN calls' :
               /\ calls'[j].keynum = i
               /\ calls'[j].value = KEY_RELEASE

\* C15: when the value of consecutive events of an axis leaves the
\* negative side (for 0 or for a positive value) every JoyAxisNeg binding
\* of the axis gets a release, and when it leaves the positive side every
\* JoyAxisPos binding of the axis gets one.
C15_CrossingZeroReleases ==
    [][ AxisStep
        => /\ (ev.value < 0 /\ ev'.value >= 0)
                => AxisSideReleased("KEYBIND_JAXISNEG")
           /\ (ev.value > 0 /\ ev'.value <= 0)
                => AxisSideReleased("KEYBIND_JAXISPOS")
      ]_vars

(***************************************************************************)
(* Claims about the dispatcher.                                            *)
(***************************************************************************)

\* C8: a keyboard event marked as an auto-repeat dispatches no action,
\* emits no notification and leaves the repeat state as it was.
C8_AutoRepeatIgnored ==
    [][ (ev'.type \in { "SDL_KEYDOWN", "SDL_KEYUP" } /\ ev'.repeat # 0)
        => /\ calls' = << >>
           /\ UNCHANGED <<repeat_key, repeat_keyTimer, repeat_keyCounter>>
      ]_vars

\* An auto-repeat key-down of the held key came, ungrabbed, after one
\* engine repeat of it, and made no call.
C8_Witness ==
    /\ ev.type = "SDL_KEYDOWN"
    /\ ev.repeat # 0
    /\ ~ev.grabbed
    /\ repeat_key # 0 - 1
    /\ repeat_keyCounter = 1
    /\ input_keybinds[repeat_key].key = ev.id
    /\ calls = << >>

\* The guards input_key tests inside a branch before it does anything.
InnerGuard(name) ==
    CASE name = "pause" -> ~ctx.toolkit
      [] name = "speed" -> "PLAYER_CINEMATICS_2X" \notin playerFlags
      [] name = "autonav" -> ctx.map \/ INGAME(ctx)
      [] OTHER -> TRUE

\* The actions whose branch acts on a release too.
ReleaseNames ==
    { "accel", "left", "right", "reverse", "primary", "face", "secondary",
      "overlay" } \cup DOMAIN WeapSets

\* Every context guard of the action of call cl holds.
GuardsHold(cl) ==
    /\ \A g \in KeyGuards[cl.name] : GuardHolds(g, ctx, cl.repeat)
    /\ InnerGuard(cl.name)

Accepted(cl) ==
    /\ cl.name \in HandledNames
    /\ GuardsHold(cl)
    /\ cl.value = KEY_PRESS \/ cl.name \in ReleaseNames

GuardRejected(cl) == cl.name \in HandledNames /\ ~GuardsHold(cl)

Unhandled(cl) == cl.name \notin HandledNames

\* C9: the 'input' notification (action name, isPress) is emitted exactly
\* once for every input passed to the dispatcher that is accepted, and
\* never for one that is guard-rejected or whose action is not handled.
C9_HookOncePerAcceptedInput ==
    \A j \in 1..Len(calls) :
        LET cl == calls[j] IN
        /\ Accepted(cl) =>
              cl.hooks = << [ name |-> cl.name, press |-> cl.value > 0 ] >>
        /\ (GuardRejected(cl) \/ Unhandled(cl)) => cl.hooks = << >>

\* The latest step handled a key event that was dispatched to "accel"
\* alone, as a digital input that is no repeat.
AccelKeyStep ==
    /\ ev'.type \in { "SDL_KEYDOWN", "SDL_KEYUP" }
    /\ now' = now
    /\ Len(calls') = 1
    /\ calls'[1].name = "accel"
    /\ calls'[1].repeat = 0

\* The press comes at most conf.afterburn_sens after the previous digital
\* press of accel, with the player in game, not jumping and not dead.
DoubleTap ==
    /\ conf.afterburn_sens # 0
    /\ ~ctx.toolkit
    /\ ctx.player
    /\ ctx.pilotFlags \cap { "PILOT_HYP_PREP", "PILOT_HYP_BEGIN",
                             "PILOT_HYPERSPACE", "PILOT_DEAD" } = {}
    /\ now - input_accelLast <= conf.afterburn_sens

CmdNames(cl) == { cl.cmds[j][1] : j \in 1..Len(cl.cmds) }

\* C10 as stated: with accel on a keyboard key, a press and then a release
\* within the afterburn window, in game, not jumping and not dead, start
\* and then stop the afterburner and do not switch the throttle on and off.
C10_AfterburnOnTap ==
    [][ ( /\ ev.type = "SDL_KEYDOWN"
          /\ Len(calls) = 1 /\ calls[1].name = "accel" /\ calls[1].repeat = 0
          /\ ev'.type = "SDL_KEYUP"
          /\ Len(calls') = 1 /\ calls'[1].name = "accel"
          /\ conf.afterburn_sens # 0
          /\ now' - input_accelLast <= conf.afterburn_sens
          /\ INGAME(ctx) /\ NOHYP(ctx) /\ NODEAD(ctx) )
        => /\ "pilot_afterburn" \in CmdNames(calls[1])
           /\ "pilot_afterburnOver" \in CmdNames(calls'[1])
           /\ "player_accel" \notin CmdNames(calls[1])
           /\ "player_accelOver" \notin CmdNames(calls'[1])
      ]_vars

\* C10 amended: with accel on a keyboard key, every press switches the
\* throttle on and starts the afterburner as well only when it is a double
\* tap (afterburn sensitivity non-zero, in game, not jumping, not dead, and
\* at most the sensitivity after the previous accel press); every release
\* switches the throttle off and then stops the afterburner.
C10_AccelDoubleTap ==
    [][ AccelKeyStep =>
          calls'[1].cmds =
            IF ev'.type = "SDL_KEYDOWN"
            THEN << RestoreMovement, Cmd("player_accel", AXIS_MAX) >> \o
                 (IF DoubleTap THEN << Cmd("pilot_afterburn", 0) >>
                               ELSE << >>)
            ELSE << Cmd("player_accelOver", 0),
                    Cmd("pilot_afterburnOver", 0) >>
      ]_vars

\* Accel was released at the time it was pressed, in game with double tap
\* on, and the release switched the throttle off and stopped the
\* afterburner.
C10_Witness ==
    /\ ev.type = "SDL_KEYUP"
    /\ Len(calls) = 1
    /\ calls[1].name = "accel"
    /\ calls[1].cmds = << Cmd("player_accelOver", 0),
                          Cmd("pilot_afterburnOver", 0) >>
    /\ conf.afterburn_sens # 0
    /\ ctx = Flying
    /\ input_accelLast = now

\* A step of input_update: the event recorded is the frame and neither
\* the clock nor the configuration moved.
UpdateStep ==
    /\ ev'.type = "input_update"
    /\ now' = now
    /\ conf' = conf

\* input_update dispatched one repeat press of the held action and
\* counted it.
OneRepeatDispatched ==
    /\ Len(calls') = 1
    /\ calls'[1].keynum = repeat_key
    /\ calls'[1].value = KEY_PRESS
    /\ calls'[1].repeat = 1
    /\ repeat_keyCounter' = repeat_keyCounter + 1
    /\ UNCHANGED <<repeat_key, repeat_keyTimer>>

NothingRepeated ==
    /\ calls' = << >>
    /\ UNCHANGED <<repeat_key, repeat_keyTimer, repeat_keyCounter>>

\* The time since the recorded press, less the delay and the repeats
\* already made.
RepeatOverdue ==
    now - repeat_keyTimer
        - (conf.repeat_delay + repeat_keyCounter * conf.repeat_freq)

\* C16 as stated: input_update dispatches one repeat press of the held
\* action and increments the counter exactly when the delay is non-zero,
\* an action is held and now - recordedTime > delay + counter*frequency;
\* otherwise it dispatches nothing and leaves the repeat state unchanged.
C16_RepeatWhenStrictlyLater ==
    [][ UpdateStep
        => IF /\ conf.repeat_delay # 0
              /\ repeat_key # 0 - 1
              /\ RepeatOverdue > 0
           THEN OneRepeatDispatched
           ELSE NothingRepeated
      ]_vars

\* C16 amended: as above with now - recordedTime >= delay +
\* counter*frequency; at most one repeat is dispatched per call.
C16_RepeatWhenDue ==
    [][ UpdateStep
        => IF /\ conf.repeat_delay # 0
              /\ repeat_key # 0 - 1
              /\ RepeatOverdue >= 0
           THEN OneRepeatDispatched
           ELSE NothingRepeated
      ]_vars

\* input_update has just dispatched the first repeat of the held action,
\* at the very millisecond the delay ran out.
C16_Witness ==
    /\ ev.type = "input_update"
    /\ Len(calls) = 1
    /\ calls[1].repeat = 1
    /\ calls[1].keynum = repeat_key
    /\ repeat_keyCounter = 1
    /\ now - repeat_keyTimer = conf.repeat_delay

\* C17: a key release that is dispatched while conf.repeat_delay is 0
\* resets the repeat state, so that input_update repeats nothing once the
\* delay is non-zero again, until a new press.
C17_ReleaseResetsWhenDisabled ==
    [][ ( /\ ev'.type = "SDL_KEYUP"
          /\ now' = now
          /\ conf' = conf
          /\ calls' # << >>
          /\ conf.repeat_delay = 0 )
        => /\ repeat_key' = 0 - 1
           /\ repeat_keyTimer' = 0
           /\ repeat_keyCounter' = 0
      ]_vars

(***************************************************************************)
(* Claims about the clicks.                                                *)
(***************************************************************************)

\* The spot of the latest click, and whether input_clickevent got as far
\* as telling the left from the right button.
ClickSpot == scene[click.spot]
ClickResolved ==
    /\ click.button \in { "SDL_BUTTON_LEFT", "SDL_BUTTON_RIGHT" }
    /\ click.hooks # << >>
    /\ NODEAD(ctx)
    /\ "PLAYER_DESTROYED" \notin playerFlags

\* The calls of the handlers made from the border case / from
\* input_clickPos, as the entities they were given.
PickedAt(stage) ==
    SelectSeq(click.did.picked, LAMBDA h : h.stage = stage)
Entities(hs) == [ k \in 1..Len(hs) |-> hs[k].entity ]

\* The click was no later than the threshold (microseconds) after the
\* latest recorded click (times in ms).
WithinThreshold ==
    1000 * click.t <= 1000 * click.was.input_mouseClickLast
                        + mouse_doubleclick

\* C11: every call of input_isDoubleClick(target) returns true exactly
\* when the configured threshold is <= 0, or target is the entity recorded
\* by the latest input_clicked and the time is no later than the recorded
\* time plus the threshold.
C11_IsDoubleClick ==
    \A k \in 1..Len(click.did.dbl) :
        click.did.dbl[k].result
            <=> \/ mouse_doubleclick <= 0
                \/ /\ click.did.dbl[k].clicked = click.was.input_lastClicked
                   /\ WithinThreshold

\* C11 happens: with a positive threshold, a second click on the same
\* target within the threshold is a double click.
C11_Witness ==
    /\ mouse_doubleclick > 0
    /\ click.did.dbl # << >>
    /\ click.did.dbl[1].result
    /\ click.t > click.was.input_mouseClickLast

\* C12: a right click leaves the player's pilot target as it was, and the
\* only pilot a handler is called for is that target.
C12_RightClickKeepsTarget ==
    (ClickResolved /\ click.button = "SDL_BUTTON_RIGHT")
        => /\ click.did.target = click.was.target
           /\ \A k \in 1..Len(click.did.picked) :
                 click.did.picked[k].entity.kind = "pilot"
                     => click.did.picked[k].entity.id = click.was.target

\* An angle of at most M_PI / 64.
InCone(dev) == 64 * Abs(dev) <= M_PI
HasAngP == ClickSpot.angP.pid # PLAYER_ID
HasAngA == ClickSpot.angA.kind # "none"
AngPEntity == Entity("pilot", 0, ClickSpot.angP.pid)
AngAEntity ==
    Entity(ClickSpot.angA.kind, ClickSpot.angA.field, ClickSpot.angA.id)

RightClickUnresolved ==
    /\ ClickResolved
    /\ click.button = "SDL_BUTTON_RIGHT"
    /\ click.ret # 0 - 1
    /\ \A k \in 1..Len(click.did.picked) : click.did.picked[k].ret = 0

\* The squared distance of the click from the ship.
ClickDistance2 ==
    pow2(ClickSpot.x - ClickSpot.pilots[PLAYER_ID].x)
        + pow2(ClickSpot.y - ClickSpot.pilots[PLAYER_ID].y)

AutonavPosOnly == << Cmd("player_autonavPos", 0) >>

\* C14 as stated: a right click that resolves no target issues exactly one
\* move-to-position command when it is farther than 1500 from the ship and
\* no command when it is not farther than 1500.
C14_AutonavFartherThan1500 ==
    RightClickUnresolved
        => click.did.cmds = IF ClickDistance2 > pow2(1500)
                            THEN AutonavPosOnly ELSE << >>

\* C14 amended: a right click that resolves no target issues exactly one
\* move-to-position command when it is at least 1500 from the ship and no
\* command when it is nearer than 1500.
C14_AutonavFrom1500 ==
    RightClickUnresolved
        => click.did.cmds = IF ClickDistance2 >= pow2(1500)
                            THEN AutonavPosOnly ELSE << >>

\* C14 happens: a right click at exactly 1500 from the ship, off the axes,
\* resolves no target and issues the command.
C14_Witness ==
    /\ RightClickUnresolved
    /\ ClickSpot.y # 0
    /\ ClickDistance2 = pow2(1500)
    /\ click.did.cmds = AutonavPosOnly


\* A left click got to input_clickPos.
LeftClickByPosition ==
    /\ ClickResolved
    /\ click.button = "SDL_BUTTON_LEFT"
    /\ click.ret # 0 - 1

\* The candidates of input_clickPos for a left click: the nearest pilot
\* and the asset found, with their squared distances from the click and
\* their acceptance radii (times ten) as input_clickevent asks for them.
Zoom == ClickSpot.invzoom \div 10
NearPilot == pilot_getNearestPos(ClickSpot)
NearAsset == ClickSpot.nearA
PilotDistance2 ==
    pow2(ClickSpot.x - ClickSpot.pilots[NearPilot].x)
        + pow2(ClickSpot.y - ClickSpot.pilots[NearPilot].y)
PilotRadius10 == PilotRadius(ClickSpot.pilots[NearPilot], Zoom, 10 * Zoom)
AssetRadius10 == AssetRadius(NearAsset, Zoom, 15 * Zoom)

PilotTooFar == 100 * PilotDistance2 > pow2(PilotRadius10)
AssetNearerAndInside ==
    /\ NearAsset.kind # "none"
    /\ NearAsset.d < PilotDistance2
    /\ 100 * NearAsset.d < pow2(AssetRadius10)
AssetTooFar ==
    NearAsset.kind = "none" \/ 100 * NearAsset.d > pow2(AssetRadius10)

Ulps == 4

\* The double j units in the last place above x, x not being zero.
DblUp(x, j) == DblRound(AddNat(x.m, << j >>), x.e)

DblClose(x, y) ==
    \/ x = y
    \/ /\ x # DblZero
       /\ y # DblZero
       /\ \E j \in 1..Ulps : DblUp(x, j) = y \/ DblUp(y, j) = x

\* Exact values m * 2^(e - 52), with as many bits as it takes: that of a
\* double, the sum and the product of two of them.
Exact(x) == [ m |-> x.m, e |-> x.e ]

ExactAdd(x, y) ==
    LET lo == IF x.e < y.e THEN x.e ELSE y.e
    IN [ m |-> AddNat(ShiftLeft(x.m, x.e - lo), ShiftLeft(y.m, y.e - lo)),
         e |-> lo ]

ExactMul(x, y) ==
    [ m |-> MulNat(x.m, y.m), e |-> x.e + y.e - (DBL_MANT_DIG - 1) ]

Rounded(x) == DblRound(x.m, x.e)

\* The product of the 1 + v * amount of the entries of a list, exactly.
RECURSIVE ExactProduct(_, _)
ExactProduct(list, amount) ==
    IF list = << >> THEN Exact(DblOne)
    ELSE ExactMul(ExactAdd(Exact(DblOne),
                           Exact(DblMul(Head(list).d, amount))),
                  ExactProduct(Tail(list), amount))

\* The lists with the same entries in another order.
Reordered(list) ==
    { [ i \in 1..Len(list) |-> list[p[i]] ] :
        p \in { q \in [ 1..Len(list) -> 1..Len(list) ] :
                  \A i, j \in 1..Len(list) : q[i] = q[j] => i = j } }

\* A list of relative entries has just been applied to an aggregate whose
\* fields were at their identities.
RelativeListApplied ==
    /\ ssop.op = "ss_statsModFromList"
    /\ ssop.before = ss_statsInit
    /\ ssop.list # << >>
    /\ \A i \in DOMAIN ssop.list :
           SS_DATA_TYPE[ssop.list[i].type] = "D"

TwoTenPercent ==
    /\ ssop.list = << SpeedMod(D_0_10), SpeedMod(D_0_10) >>
    /\ ssop.amount = DblOne

\* C18 as stated: two relative entries of +0.10 applied with the full
\* amount to a field at 1.0 give 1.21; a list of relative entries gives
\* the product of the 1 + v, whatever the order of the list.
C18_ProductExactly ==
    RelativeListApplied
    => /\ TwoTenPercent => pilot_stats.speed_mod = D_1_21
       /\ pilot_stats.speed_mod
             = Rounded(ExactProduct(ssop.list, ssop.amount))
       /\ \A list \in Reordered(ssop.list) :
             ss_statsModFromList(ssop.before, list, ssop.amount)
               = pilot_stats

\* C18 amended: two relative entries of +0.10 applied with the full amount
\* to a field at 1.0 give 1.21 up to the rounding of doubles, and not
\* 1.20; a list of relative entries gives the product of the 1 + v up to
\* that rounding, and so it does in any other order of the list.
C18_ProductUpToRounding ==
    RelativeListApplied
    => /\ TwoTenPercent
             => /\ DblClose(pilot_stats.speed_mod, D_1_21)
                /\ ~DblClose(pilot_stats.speed_mod, D_1_20)
       /\ DblClose(pilot_stats.speed_mod,
                   Rounded(ExactProduct(ssop.list, ssop.amount)))
       /\ \A list \in Reordered(ssop.list) :
             DblClose(ss_statsModFromList(ssop.before, list,
                                          ssop.amount).speed_mod,
                      pilot_stats.speed_mod)

\* Two entries of +0.10 were applied with the full amount to a fresh
\* aggregate and the speed modifier is the double next above 1.21.
C18_Witness ==
    /\ RelativeListApplied
    /\ TwoTenPercent
    /\ pilot_stats.speed_mod = DblUp(D_1_21, 1)

\* dest after the aggregates of srcs were merged into it, srcs[1] first.
RECURSIVE MergeAll(_, _)
MergeAll(dest, srcs) ==
    IF srcs = << >> THEN dest
    ELSE MergeAll(ss_statsMerge(dest, Head(srcs)), Tail(srcs))

\* The exact product of the relative field and the exact sum of the
\* absolute field of dest and of the aggregates of srcs.
RECURSIVE ExactSpeedMod(_, _)
ExactSpeedMod(dest, srcs) ==
    IF srcs = << >> THEN Exact(dest.speed_mod)
    ELSE ExactMul(ExactSpeedMod(dest, Tail(srcs)),
                  Exact(Head(srcs).speed_mod))

RECURSIVE ExactArmourFlat(_, _)
ExactArmourFlat(dest, srcs) ==
    IF srcs = << >> THEN Exact(dest.armour_flat)
    ELSE ExactAdd(ExactArmourFlat(dest, Tail(srcs)),
                  Exact(Head(srcs).armour_flat))

RECURSIVE SumHiddenJumpDetect(_, _)
SumHiddenJumpDetect(dest, srcs) ==
    IF srcs = << >> THEN dest.misc_hidden_jump_detect
    ELSE Head(srcs).misc_hidden_jump_detect
           + SumHiddenJumpDetect(dest, Tail(srcs))

AnyInstantJump(dest, srcs) ==
    IF \/ dest.misc_instant_jump # 0
       \/ \E i \in DOMAIN srcs : srcs[i].misc_instant_jump # 0
    THEN 1 ELSE 0

\* The same aggregate up to the rounding of its double fields.
StatsClose(a, b) ==
    /\ DblClose(a.speed_mod, b.speed_mod)
    /\ DblClose(a.armour_flat, b.armour_flat)
    /\ a.misc_hidden_jump_detect = b.misc_hidden_jump_detect
    /\ a.misc_instant_jump = b.misc_instant_jump

Merged == ssop.op = "ss_statsMerge"

LastMerged == ssop.merged[Len(ssop.merged)]

\* ssop.before with all but the last two of the merged aggregates.
BeforeLastTwo ==
    MergeAll(ssop.before, SubSeq(ssop.merged, 1, Len(ssop.merged) - 2))

\* C19 as stated: after aggregates were merged into one, merging them in
\* any other order, merging dest into the last src instead, or merging
\* the last two first, gives the same aggregate; its relative field is
\* the product and its absolute and integer fields are the sums of
\* theirs, its boolean is set when one of theirs is; merging a fresh
\* aggregate, or merging into a fresh one, changes nothing.
C19_MergeExactly ==
    Merged
    => /\ \A srcs \in Reordered(ssop.merged) :
             MergeAll(ssop.before, srcs) = pilot_stats
       /\ ss_statsMerge(LastMerged, ssop.prev) = pilot_stats
       /\ Len(ssop.merged) >= 2
             => ss_statsMerge(BeforeLastTwo,
                              ss_statsMerge(
                                  ssop.merged[Len(ssop.merged) - 1],
                                  LastMerged)) = pilot_stats
       /\ pilot_stats.speed_mod
             = Rounded(ExactSpeedMod(ssop.before, ssop.merged))
       /\ pilot_stats.armour_flat
             = Rounded(ExactArmourFlat(ssop.before, ssop.merged))
       /\ pilot_stats.misc_hidden_jump_detect
             = SumHiddenJumpDetect(ssop.before, ssop.merged)
       /\ pilot_stats.misc_instant_jump
             = AnyInstantJump(ssop.before, ssop.merged)
       /\ LastMerged = ss_statsInit => pilot_stats = ssop.prev
       /\ ssop.prev = ss_statsInit => pilot_stats = LastMerged

\* C19 amended: the same, with the double fields equal up to rounding
\* where the order or the grouping of the merges differs, and exactly
\* equal where only dest and src are exchanged or a fresh aggregate is
\* merged.
C19_MergeUpToRounding ==
    Merged
    => /\ \A srcs \in Reordered(ssop.merged) :
             StatsClose(MergeAll(ssop.before, srcs), pilot_stats)
       /\ ss_statsMerge(LastMerged, ssop.prev) = pilot_stats
       /\ Len(ssop.merged) >= 2
             => StatsClose(ss_statsMerge(BeforeLastTwo,
                                         ss_statsMerge(
                                             ssop.merged[Len(ssop.merged) - 1],
                                             LastMerged)),
                           pilot_stats)
       /\ DblClose(pilot_stats.speed_mod,
                   Rounded(ExactSpeedMod(ssop.before, ssop.merged)))
       /\ DblClose(pilot_stats.armour_flat,
                   Rounded(ExactArmourFlat(ssop.before, ssop.merged)))
       /\ pilot_stats.misc_hidden_jump_detect
             = SumHiddenJumpDetect(ssop.before, ssop.merged)
       /\ pilot_stats.misc_instant_jump
             = AnyInstantJump(ssop.before, ssop.merged)
       /\ LastMerged = ss_statsInit => pilot_stats = ssop.prev
       /\ ssop.prev = ss_statsInit => pilot_stats = LastMerged

\* Three aggregates, a fresh one the last, were merged into one that a
\* list had built; the boolean was set by one of them only, and another
\* order of the merges gives another double in a field.
C19_Witness ==
    /\ Merged
    /\ Len(ssop.merged) = 3
    /\ LastMerged = ss_statsInit
    /\ ssop.before # ss_statsInit
    /\ ssop.before.misc_instant_jump = 0
    /\ pilot_stats.misc_instant_jump = 1
    /\ \E srcs \in Reordered(ssop.merged) :
          MergeAll(ssop.before, srcs) # pilot_stats

(***************************************************************************)
(* Claims about the movement actions, under SpecMove.                      *)
(***************************************************************************)

\* The latest step handled an event whose scan of the table called
\* input_key for "accel", the first entry of the table, and not as a
\* repeat: the state before the step is the state that call found.
AccelStep ==
    /\ ev'.type # "input_update"
    /\ now' = now
    /\ calls' # << >>
    /\ calls'[1].name = "accel"
    /\ calls'[1].repeat = 0

\* A call of input_key for a digital input (a key, a button or a hat).
Digital(cl) == cl.kabs < 0

\* C21: a digital accel press starts the afterburner exactly when the
\* afterburn sensitivity is non-zero, the player is in game, not in
\* hyperspace and not dead, and the previous digital accel press is at most
\* the sensitivity ago; every digital accel press becomes the previous
\* press, whether or not that holds; an analog accel event neither starts
\* the afterburner nor becomes the previous press.
C21_AfterburnOnDoubleTap ==
    [][ AccelStep =>
          LET cl == calls'[1] IN
          /\ (Digital(cl) /\ cl.value = KEY_PRESS)
                => /\ "pilot_afterburn" \in CmdNames(cl) <=> DoubleTap
                   /\ input_accelLast' = now
          /\ ~Digital(cl)
                => /\ "pilot_afterburn" \notin CmdNames(cl)
                   /\ input_accelLast' = input_accelLast
      ]_vars

\* Accel on the key t was pressed a second time, 250 ms after the first
\* press, while flying, and the press started the afterburner.
C21_Witness ==
    /\ ev.type = "SDL_KEYDOWN"
    /\ calls # << >>
    /\ calls[1].name = "accel"
    /\ calls[1].cmds = << RestoreMovement, Cmd("player_accel", AXIS_MAX),
                          Cmd("pilot_afterburn", 0) >>
    /\ input_accelLast = now
    /\ now = StartTime + 250
    /\ ctx = Flying

\* The call switched the throttle off: player_accelOver, or player_accel
\* with the value 0.
ThrottleOff(cl) ==
    \E j \in 1..Len(cl.cmds) :
        cl.cmds[j] \in { Cmd("player_accelOver", 0), Cmd("player_accel", 0) }

\* C22: every release of accel, from any input and in any situation,
\* stops the afterburner, switches the throttle off and clears the flag
\* that tells accel is held (PLAYER_ACCEL), and input_accelButton with it.
C22_ReleaseStopsAfterburner ==
    [][ (AccelStep /\ calls'[1].value = KEY_RELEASE) =>
          /\ "pilot_afterburnOver" \in CmdNames(calls'[1])
          /\ ThrottleOff(calls'[1])
          /\ "PLAYER_ACCEL" \notin playerFlags'
          /\ input_accelButton' = 0
      ]_vars

\* The latest step handled an event that called input_key for "reverse"
\* alone, and not as a repeat.
ReverseStep ==
    /\ ev'.type # "input_update"
    /\ now' = now
    /\ Len(calls') = 1
    /\ calls'[1].name = "reverse"
    /\ calls'[1].repeat = 0

\* C23: a press of reverse sets PLAYER_REVERSE; a release with the flag
\* set clears it and stops the throttle exactly when PLAYER_ACCEL is not
\* set; a release with the flag not set calls nothing and changes no flag;
\* so with accel held by a digital input neither stops the throttle.
C23_ReverseKeepsHeldThrottle ==
    [][ ReverseStep =>
          LET cl == calls'[1]
              set == "PLAYER_REVERSE" \in playerFlags
          IN
          /\ cl.value = KEY_PRESS
                => /\ playerFlags' = playerFlags \cup { "PLAYER_REVERSE" }
                   /\ cl.cmds = << RestoreMovement >>
          /\ (cl.value = KEY_RELEASE /\ set)
                => /\ playerFlags' = playerFlags \ { "PLAYER_REVERSE" }
                   /\ cl.cmds = IF "PLAYER_ACCEL" \in playerFlags
                                THEN << >>
                                ELSE << Cmd("player_accelOver", 0) >>
          /\ (cl.value = KEY_RELEASE /\ ~set)
                => /\ playerFlags' = playerFlags
                   /\ cl.cmds = << >>
          /\ "PLAYER_ACCEL" \in playerFlags
                => "player_accelOver" \notin CmdNames(cl)
      ]_vars

\* Reverse on the button 0 was released after a press, with accel on the
\* key t not held, and the release stopped the throttle.
C23_Witness ==
    /\ ev.type = "SDL_JOYBUTTONUP"
    /\ Len(calls) = 1
    /\ calls[1].name = "reverse"
    /\ calls[1].cmds = << Cmd("player_accelOver", 0) >>
    /\ playerFlags = {}

\* What the latest step left of a turn action, when its event called
\* input_key for that action and not as a repeat: a digital press leaves
\* the flag set and the rate 1, an analog press the rate of the axis, and
\* a release the flag clear and the rate 0.
TurnHandled(name, flag, rate) ==
    \A j \in 1..Len(calls') :
        LET cl == calls'[j] IN
        (cl.name = name /\ cl.repeat = 0) =>
            /\ (Digital(cl) /\ cl.value = KEY_PRESS)
                  => flag \in playerFlags' /\ rate = AXIS_MAX
            /\ (~Digital(cl) /\ cl.value = KEY_PRESS) => rate = cl.kabs
            /\ cl.value = KEY_RELEASE
                  => flag \notin playerFlags' /\ rate = 0

\* C24: for left and for right, a digital press sets the turn flag and the
\* turn rate 1, an analog event sets the turn rate to its magnitude, and
\* after a release from any input (key up, button up, hat cleared, axis
\* back at 0) the turn flag is clear and the turn rate is 0.
C24_TurnReleaseClearsFlag ==
    [][ (ev'.type # "input_update" /\ now' = now) =>
          /\ TurnHandled("left", "PLAYER_TURN_LEFT", player_left')
          /\ TurnHandled("right", "PLAYER_TURN_RIGHT", player_right')
      ]_vars

(***************************************************************************)
(* Claims about the repeat state, under SpecMove: (repeat_key,             *)
(* repeat_keyTimer, repeat_keyCounter) is the one record of a held action. *)
(***************************************************************************)

\* The latest step made input_key calls at one time and with one
\* configuration, and LastCall is the last of them: the one whose
\* bookkeeping the state after the step shows.
CallStep == now' = now /\ conf' = conf /\ calls' # << >>

LastCall == calls'[Len(calls')]

\* C25: with a non-zero repeat delay, a press that is no repeat records
\* (its action, now, 0) as the repeat state, whatever was recorded before
\* and whether or not input_key has a branch for the action and its guards
\* hold; a synthetic repeat press is a press of the recorded action and
\* changes neither the recorded action nor its time.
C25_PressRecordsRepeatState ==
    [][ (CallStep /\ conf.repeat_delay # 0 /\ LastCall.value = KEY_PRESS) =>
          IF LastCall.repeat = 0
          THEN /\ repeat_key' = LastCall.keynum
               /\ repeat_keyTimer' = now
               /\ repeat_keyCounter' = 0
          ELSE /\ LastCall.keynum = repeat_key
               /\ repeat_key' = repeat_key
               /\ repeat_keyTimer' = repeat_keyTimer
      ]_vars

\* The hat 0 went down 250 ms or more after the start: accel and left on
\* the same hat were released and then switchtab1, an action input_key has
\* no branch for, was pressed and is the recorded action.
C25_Witness ==
    /\ ev.type = "SDL_JOYHATMOTION"
    /\ Len(calls) = 3
    /\ calls[3].name = "switchtab1"
    /\ calls[3].value = KEY_PRESS
    /\ calls[3].hooks = << >>
    /\ repeat_key = calls[3].keynum
    /\ repeat_keyTimer = now
    /\ now > StartTime
    /\ repeat_keyCounter = 0

\* No action is recorded as held.
NoRepeatKey ==
    repeat_key = 0 - 1 /\ repeat_keyTimer = 0 /\ repeat_keyCounter = 0

\* One of the input_key calls of the latest step was a press that is no
\* repeat.
NewPress ==
    \E j \in 1..Len(calls') :
        calls'[j].value = KEY_PRESS /\ calls'[j].repeat = 0

\* C26: with a non-zero repeat delay, a release passed to input_key, of
\* the held action or of another, leaves the repeat state (none, 0, 0);
\* from then on input_update dispatches no repeat, and the state stays so
\* until a press that is no repeat.
C26_ReleaseResetsRepeatState ==
    [][ /\ (CallStep /\ conf.repeat_delay # 0 /\ LastCall.value = KEY_RELEASE)
            => NoRepeatKey'
        /\ (NoRepeatKey /\ UpdateStep) => calls' = << >>
        /\ (NoRepeatKey /\ ~NoRepeatKey') => (CallStep /\ NewPress)
      ]_vars

\* The hat 0 went up: accel was pressed and recorded, and the releases of
\* left and switchtab1 on the same hat, neither of them the held action,
\* left no action recorded.
C26_Witness ==
    /\ ev.type = "SDL_JOYHATMOTION"
    /\ Len(calls) = 3
    /\ calls[1].name = "accel"
    /\ calls[1].value = KEY_PRESS
    /\ calls[3].value = KEY_RELEASE
    /\ conf.repeat_delay # 0
    /\ NoRepeatKey

(***************************************************************************)
(* Claims about the handlers of a click, under SpecClick.                  *)
(***************************************************************************)

\* The latest click was a left click (no autonav) that got as far as the
\* handlers.
LeftClick == ClickResolved /\ click.button = "SDL_BUTTON_LEFT"

\* Whether C has the entity as the player's target of its kind.
Targeted(C, e) ==
    CASE e.kind = "pilot" -> C.target = e.id
      [] e.kind = "planet" -> C.nav_planet = e.id
      [] e.kind = "jump" -> C.nav_hyperspace = e.id
      [] OTHER -> C.nav_asteroid = e

\* The click on e counts as a double click: double clicks are off, or e
\* is the entity of the latest recorded click, within the threshold.
IsDouble(e) ==
    \/ mouse_doubleclick <= 0
    \/ e = click.was.input_lastClicked /\ WithinThreshold

\* The primary action of e: board or hail; land or hail the planet (after
\* player_hyperspacePreempt); jump when hyperspace is possible.
PrimaryAction(e) ==
    CASE e.kind = "pilot" ->
            << Cmd(IF ClickSpot.able THEN "player_board"
                                     ELSE "player_hail", 0) >>
      [] e.kind = "planet" ->
            << Cmd("player_hyperspacePreempt", 0),
               Cmd(IF ClickSpot.able THEN "player_land"
                                     ELSE "player_hailPlanet", 0) >>
      [] e.kind = "jump" ->
            IF ClickSpot.able THEN << Cmd("player_jump", 0) >> ELSE << >>

\* Setting e as the target (for a jump point that is not the target, after
\* the map path was updated).
SelectAction(e) ==
    CASE e.kind = "pilot" -> << Cmd("player_targetSet", e.id) >>
      [] e.kind = "planet" -> << Cmd("player_targetPlanetSet", e.id) >>
      [] e.kind = "jump" ->
            (IF click.was.nav_hyperspace # e.id
             THEN << Cmd("map_select", e.id) >> ELSE << >>)
            \o << Cmd("player_targetHyperspaceSet", e.id) >>

SameTargets(C, D) ==
    /\ C.target = D.target
    /\ C.nav_planet = D.nav_planet
    /\ C.nav_hyperspace = D.nav_hyperspace
    /\ C.nav_asteroid = D.nav_asteroid

\* The click did to e what the claim says: the primary action and nothing
\* else when e was the target already and the click is a double click,
\* and else e was made the target, and nothing else.
PrimaryOrSelected(e) ==
    IF Targeted(click.was, e) /\ IsDouble(e)
    THEN /\ click.did.cmds = PrimaryAction(e)
         /\ SameTargets(click.was, click.did)
    ELSE /\ click.did.cmds = SelectAction(e)
         /\ Targeted(click.did, e)

ClickKinds == { "pilot", "planet", "jump" }

\* C27 as stated: a left click on a pilot, a planet or a jump point does
\* the primary action of the entity when the entity is the target of its
\* kind already and the click is a double click, and in every other case
\* just makes the entity the target.
C27_PrimaryActionOrTarget ==
    LeftClick =>
        \A k \in 1..Len(click.did.picked) :
            click.did.picked[k].entity.kind \in ClickKinds
                => PrimaryOrSelected(click.did.picked[k].entity)

\* It can be selected: a pilot, a planet the player knows (planet_isKnown)
\* or a jump point that is usable (jp_isUsable).
Selectable(e) == e.kind = "pilot" \/ ClickSpot.ok

\* C27 amended: the same for a left click on a pilot, a known planet or a
\* usable jump point.
C27_PrimaryActionOrTargetIfKnown ==
    LeftClick =>
        \A k \in 1..Len(click.did.picked) :
            LET e == click.did.picked[k].entity IN
            (e.kind \in ClickKinds /\ Selectable(e))
                => PrimaryOrSelected(e)

\* The planet that is the target was clicked again within the threshold,
\* 250 ms after the click that made it the target, and the player lands.
C27_Witness ==
    /\ LeftClick
    /\ mouse_doubleclick > 0
    /\ click.t > click.was.input_mouseClickLast
    /\ Len(click.did.picked) = 1
    /\ click.did.picked[1].entity = Entity("planet", 0, 0)
    /\ click.was.nav_planet = 0
    /\ click.did.cmds = << Cmd("player_hyperspacePreempt", 0),
                           Cmd("player_land", 0) >>

(***************************************************************************)
(* Claims about the hat filter, under SpecFilter.                          *)
(***************************************************************************)

\* The latest event is a motion of a hat that got to input_joyhatevent.
HatMoved == Filtered /\ ev.type = "SDL_JOYHATMOTION"

\* The table entries bound to a direction of the hat of the event.
HatBindings ==
    { i \in 1..input_numbinds :
        /\ input_keybinds[i].key = ev.id
        /\ input_keybinds[i].type \in DOMAIN SDL_HAT }

\* The direction of entry i is set in the value of the hat.
HatBitSet(i) == ev.hat \cap SDL_HAT[input_keybinds[i].type] # {}

\* Entry i got one input_key call, a press if its direction is set in the
\* value of the hat and a release if not.
OneHatCall(i) ==
    /\ Cardinality(CallsTo(i)) = 1
    /\ \A j \in CallsTo(i) :
          /\ calls[j].value = IF HatBitSet(i) THEN KEY_PRESS ELSE KEY_RELEASE
          /\ calls[j].kabs = 0 - 1
          /\ calls[j].repeat = 0

\* C28 as stated: a motion of the hat h dispatches to each binding of a
\* direction of h one event, a press if the direction is set in the value
\* and a release if not, and nothing to any other binding.
C28_HatDispatch ==
    HatMoved =>
        \A i \in 1..input_numbinds :
            IF i \in HatBindings THEN OneHatCall(i) ELSE CallsTo(i) = {}

\* C28 amended: the same, but a binding that is disabled gets no press.
C28_HatDispatchEnabled ==
    HatMoved =>
        \A i \in 1..input_numbinds :
            IF /\ i \in HatBindings
               /\ ~(input_keybinds[i].disabled /\ HatBitSet(i))
            THEN OneHatCall(i)
            ELSE CallsTo(i) = {}

\* The hat 0 went up and right with five bindings on its directions and
\* one binding on the hat 1: of the three bindings of up and right the
\* disabled one got nothing and two were pressed, and the bindings of
\* down and left were released.
C28_Witness ==
    /\ HatMoved
    /\ ev.hat = { 0, 1 }
    /\ Cardinality(HatBindings) = 5
    /\ \E i \in 1..input_numbinds :
          /\ input_keybinds[i].key = 1
          /\ input_keybinds[i].type = "KEYBIND_JHAT_UP"
    /\ Len(calls) = 4
    /\ \E i \in HatBindings : input_keybinds[i].disabled /\ HatBitSet(i)
    /\ Cardinality({ j \in 1..4 : calls[j].value = KEY_PRESS }) = 2

\* The last entity the latest click was resolved to is a planet the
\* player does not know or a jump point that is not usable.
LastPicked == click.did.picked[Len(click.did.picked)]

ResolvedToUnknown ==
    /\ ClickResolved
    /\ click.did.picked # << >>
    /\ LastPicked.entity.kind \in { "planet", "jump" }
    /\ ~ClickSpot.ok

\* The click left the targets and the state of the double click as they
\* were.
TargetsAndDoubleClickKept ==
    /\ SameTargets(click.was, click.did)
    /\ click.did.input_lastClicked = click.was.input_lastClicked
    /\ click.did.input_mouseClickLast = click.was.input_mouseClickLast

\* C29 as stated: a click resolved to a planet that is not known or to a
\* jump point that is not usable is reported as not consumed and changes
\* neither the targets, nor the autonav (no command is given), nor the
\* state of the double click.
C29_UnknownNotConsumed ==
    ResolvedToUnknown =>
        /\ LastPicked.ret = 0
        /\ click.ret # 1
        /\ click.did.cmds = << >>
        /\ TargetsAndDoubleClickKept

\* C29 amended: so it is for a left click; a right click so resolved is
\* handled as a click on the position: input_clickPos reports it consumed
\* and autonav to the position starts when that is at least 1500 from the
\* ship; targets and double click state stay.
C29_UnknownLeftNotConsumed ==
    ResolvedToUnknown =>
        /\ LastPicked.ret = 0
        /\ TargetsAndDoubleClickKept
        /\ click.button = "SDL_BUTTON_LEFT"
              => click.ret # 1 /\ click.did.cmds = << >>
        /\ (click.button = "SDL_BUTTON_RIGHT" /\ click.ret # 0 - 1)
              => /\ click.ret = 1
                 /\ click.did.cmds = IF ClickDistance2 >= pow2(1500)
                                     THEN AutonavPosOnly ELSE << >>

\* Pilot 3 is the target and was clicked last; then a jump point that is
\* not usable was clicked with the left button: nothing was reported and
\* nothing changed.
C29_Witness ==
    /\ ResolvedToUnknown
    /\ click.button = "SDL_BUTTON_LEFT"
    /\ LastPicked.entity.kind = "jump"
    /\ click.ret = 0
    /\ click.was.target = 3
    /\ click.did.target = 3
    /\ click.did.input_lastClicked = Entity("pilot", 0, 3)
    /\ click.did.cmds = << >>

(***************************************************************************)
(* Claims about the default layouts, under SpecRegistry.                   *)
(***************************************************************************)

\* The input_setKeybind calls of a layout that name the table entry i.
DefaultCalls(wasd, i) ==
    { j \in 1..Len(DefaultBinds(wasd)) :
        DefaultBinds(wasd)[j][1] = keybind_info[i] }

\* The table holds in entry i what the call b of input_setKeybind sets.
HoldsBind(i, b) ==
    /\ input_keybinds[i].name = b[1]
    /\ input_keybinds[i].type = b[2]
    /\ input_keybinds[i].key = b[3]
    /\ input_keybinds[i].mod = StoredMod(b[2], b[4])

\* C30: after input_setDefault, with the arrows or with WASD, there is no
\* warning of an unknown name: no call of the layout names an action that
\* is not in the table, and every action of the table is named by exactly
\* one call and is bound as that call says, whatever it was bound to.
C30_DefaultsCoverTable ==
    ret.op = "input_setDefault" =>
        /\ warned = << >>
        /\ \E wasd \in BOOLEAN :
              /\ \A j \in 1..Len(DefaultBinds(wasd)) :
                    DefaultBinds(wasd)[j][1] \in KeybindNames
              /\ \A i \in 1..input_numbinds :
                    /\ Cardinality(DefaultCalls(wasd, i)) = 1
                    /\ \A j \in DefaultCalls(wasd, i) :
                          HoldsBind(i, DefaultBinds(wasd)[j])

\* input_setDefault( 1 ) was called on a table with every binding
\* disabled: the table holds the WASD layout, accel on the key w.
C30_Witness ==
    /\ ret.op = "input_setDefault"
    /\ input_keybinds[1].name = "accel"
    /\ input_keybinds[1].key = SDLK.w
    /\ input_keybinds[1].disabled
    /\ input_keybinds[input_numbinds].type = "KEYBIND_KEYBOARD"
    /\ warned = << >>

(***************************************************************************)
(* Claims about disabled bindings and key repeat, under SpecDisable.       *)
(***************************************************************************)

\* The positions in calls of the presses given to input_key.
Presses == { j \in 1..Len(calls) : calls[j].value = KEY_PRESS }

\* C31: while the binding of an action is disabled no press of that action
\* reaches input_key, neither from an event nor from input_update
\* repeating an action that was pressed before it was disabled.
C31_NoPressWhileDisabled ==
    \A j \in Presses : ~input_keybinds[calls[j].keynum].disabled

(***************************************************************************)
(* Claims about the "input" hook, under SpecFilter.                        *)
(***************************************************************************)

\* The positions in calls of the calls whose hook told a release.
ReleasesTold ==
    { j \in 1..Len(calls) :
        \E h \in 1..Len(calls[j].hooks) : ~calls[j].hooks[h].press }

\* C32: every release the "input" hook tells of an action comes after a
\* press it told of that action, with no other release of the action in
\* between: a key up with other modifiers than the key down tells no
\* release of a binding that was not told the press.
C32_ReleaseToldAfterPress ==
    \A j \in ReleasesTold : calls[j].paired

(***************************************************************************)
(* Claims about the default layouts under key events, under SpecDefault.   *)
(***************************************************************************)

\* The actions input_key has a branch for that the latest event pressed.
HandledPressed ==
    { calls[j].name : j \in { p \in Presses :
                                calls[p].name \in HandledNames } }

\* C33: in the arrows layout and in the WASD layout, no press of a key,
\* with whatever modifiers, is dispatched to two different actions that
\* input_key has a branch for.
C33_OneHandledActionPerPress ==
    ev.type = "SDL_KEYDOWN" => Cardinality(HandledPressed) <= 1

(***************************************************************************)
(* Claims about the guards of the dispatcher, under SpecInput.             *)
(***************************************************************************)

\* The commands that board, land, jump, hail, target and handle the weapon
\* sets.
ShipCmds ==
    { "player_board", "player_land", "player_jump", "player_hail",
      "player_autohail", "player_targetNext(0)", "player_targetPrev(0)",
      "player_targetNearest", "player_targetNext(1)",
      "player_targetPrev(1)", "player_targetHostile", "player_targetClear",
      "player_targetEscort(0)", "player_targetEscort(1)",
      "player_targetPlanet", "player_targetHyperspace",
      "player_weapSetPress" }

\* C34: input_key invokes no boarding, landing, jumping, hailing, targeting
\* or weapon set command while the player is dead or there is no player
\* ship.
C34_NoShipCommandWhenDead ==
    ~NODEAD(ctx) =>
        \A j \in 1..Len(calls) : CmdNames(calls[j]) \cap ShipCmds = {}

(***************************************************************************)
(* Claims about the state of the double click, under SpecClick.            *)
(***************************************************************************)

\* The latest click changed the item clicked last or the time of the
\* click.
DoubleClickStateChanged ==
    \/ click.did.input_lastClicked # click.was.input_lastClicked
    \/ click.did.input_mouseClickLast # click.was.input_mouseClickLast

\* C35: the item clicked last and the time of the last click are changed
\* only by a click that is no autonav click (not the right button), that
\* was resolved to a pilot, a planet, a jump point or an asteroid whose
\* handler used it, and with conf.mouse_doubleclick > 0.
C35_DoubleClickStateFrame ==
    DoubleClickStateChanged =>
        /\ click.button # "SDL_BUTTON_RIGHT"
        /\ mouse_doubleclick > 0
        /\ click.did.picked # << >>
        /\ LastPicked.ret = 1
        /\ LastPicked.entity.kind \in
              { "pilot", "planet", "jump", "asteroid" }

\* The latest click was a left click on a pilot, a planet or a jump point
\* that its handler used and took for a double click, with double clicks
\* on.
UsedAsDoubleClick ==
    /\ LeftClick
    /\ mouse_doubleclick > 0
    /\ click.did.picked # << >>
    /\ LastPicked.ret = 1
    /\ LastPicked.entity.kind \in ClickKinds
    /\ click.did.dbl # << >>
    /\ click.did.dbl[Len(click.did.dbl)].result

\* A step that is a click, not the clock moving.
ClickStep == ev'.type = "SDL_MOUSEBUTTONDOWN" /\ now' = now

\* C36: a click taken for a double click is recorded as the last click, so
\* that the next click on the same entity, still the target, within the
\* threshold of that click does the primary action again, however long
\* after the first click of the series.
C36_DoubleClickRecordedAgain ==
    [][ UsedAsDoubleClick
        => /\ click.did.input_lastClicked = LastPicked.entity
           /\ click.did.input_mouseClickLast = click.t
           /\ ( /\ ClickStep
                /\ LeftClick'
                /\ click'.did.picked # << >>
                /\ LastPicked' = LastPicked
                /\ Targeted(click'.was, LastPicked.entity)
                /\ click'.t <= click.t + (mouse_doubleclick \div 1000) )
              => /\ UsedAsDoubleClick'
                 /\ click'.did.cmds = PrimaryAction(LastPicked.entity)'
      ]_vars

\* The third click of a series on pilot 3, 250 ms after the second and
\* 500 ms after the first, with a threshold of 250.5 ms: it boarded or
\* hailed the pilot again.
C36_Witness ==
    /\ UsedAsDoubleClick
    /\ LastPicked.entity = Entity("pilot", 0, 3)
    /\ click.t = StartTime + 500
    /\ click.was.input_mouseClickLast = StartTime + 250
    /\ click.was.input_lastClicked = LastPicked.entity
    /\ mouse_doubleclick = 250500
    /\ click.did.cmds = PrimaryAction(LastPicked.entity)
    /\ click.did.input_mouseClickLast = click.t

(***************************************************************************)
(* Claims about what the registry operations leave alone, under            *)
(* SpecRegistry.                                                           *)
(***************************************************************************)

\* Entry i has the same kind, key and mask after the step.
SameBinding(i) ==
    /\ input_keybinds'[i].type = input_keybinds[i].type
    /\ input_keybinds'[i].key = input_keybinds[i].key
    /\ input_keybinds'[i].mod = input_keybinds[i].mod

SameEnabled(i) == input_keybinds'[i].disabled = input_keybinds[i].disabled

\* The table has the names of keybind_info, in their order.
SameNames(kb) ==
    /\ DOMAIN kb = 1..input_numbinds
    /\ \A i \in 1..input_numbinds : kb[i].name = keybind_info[i]

\* C38: input_enableAll, input_disableAll and input_toggleEnable change
\* nothing but enabled flags, and input_toggleEnable that of the named
\* binding only and none for an unknown name; input_setKeybind changes
\* nothing but the kind, the key and the mask of the named binding; the
\* names of the table and their order never change.
C38_RegistryFrame ==
    [][ /\ SameNames(input_keybinds) /\ SameNames(input_keybinds')
        /\ ret'.op \in { "input_enableAll", "input_disableAll" }
              => \A i \in 1..input_numbinds : SameBinding(i)
        /\ ret'.op = "input_toggleEnable"
              => \A i \in 1..input_numbinds :
                    /\ SameBinding(i)
                    /\ keybind_info[i] # ret'.name => SameEnabled(i)
        /\ ret'.op = "input_setKeybind"
              => \A i \in 1..input_numbinds :
                    /\ SameEnabled(i)
                    /\ keybind_info[i] # ret'.name => SameBinding(i)
      ]_vars

\* input_disableAll was called on a table with accel bound to a button: the
\* binding is disabled and still bound to the button.
C38_Witness ==
    /\ ret.op = "input_disableAll"
    /\ input_keybinds[1].name = "accel"
    /\ input_keybinds[1].disabled
    /\ input_keybinds[1].type = "KEYBIND_JBUTTON"
    /\ input_keybinds[1].key = SDLK.t
    /\ input_keybinds[1].mod = NMOD.ANY

(***************************************************************************)
(* Claims about what input_handle lets through, under SpecHandle.          *)
(***************************************************************************)

\* The click state the handlers of a click write.
ClickTargets ==
    <<player_target, nav_planet, nav_hyperspace, nav_asteroid,
      input_mouseClickLast, input_lastClicked>>

\* input_clickevent was not called for the click of the step: no "mouse"
\* hook, no handler, nothing written.
ClickNotResolved ==
    /\ click'.hooks = << >>
    /\ click'.did = click'.was
    /\ click'.ret = 0 - 1
    /\ UNCHANGED ClickTargets

\* C37: an event the toolkit, the overlay or the GUI takes reaches neither
\* the key filter (no input_key call, nothing of the dispatcher changes)
\* nor input_clickevent, nor input_mouseMove; and while a toolkit window is
\* open no mouse button event reaches input_clickevent and no mouse motion
\* the position of the player's mouse, taken or not; a mouse motion never
\* reaches input_clickevent.
C37_TakenEventsStop ==
    [][ /\ ( ev'.grabbed /\ ev'.type \in { "SDL_KEYDOWN", "SDL_KEYUP" } )
              => calls' = << >> /\ UNCHANGED <<dispatchVars, clickVars>>
        /\ ( /\ ev'.type = "SDL_MOUSEBUTTONDOWN"
             /\ ev'.grabbed \/ ctx.toolkit )
              => ClickNotResolved /\ UNCHANGED dispatchVars
        /\ ev'.type = "SDL_MOUSEMOTION"
              => /\ UNCHANGED <<dispatchVars, clickVars>>
                 /\ ( ev'.grabbed \/ ctx.toolkit )
                       => UNCHANGED player_mouse
      ]_vars

\* A key t down that the overlay or the GUI took was handled, after a click
\* was used and a press of t had made target_next the action to repeat:
\* nothing was dispatched.
C37_Witness ==
    /\ ev.type = "SDL_KEYDOWN"
    /\ ev.grabbed
    /\ ev.repeat = 0
    /\ ~ctx.toolkit
    /\ calls = << >>
    /\ repeat_key # 0 - 1
    /\ input_keybinds[repeat_key].name = "target_next"
    /\ input_keybinds[repeat_key].key = ev.id
    /\ click.ret = 1

(***************************************************************************)
(* Claims about the cursor, under SpecCursorFair.                          *)
(***************************************************************************)

\* A call of input_mouseHide.
MouseHideStep == ret'.op = "input_mouseHide"

\* input_mouseHide has just brought the counter to 0.
CounterBroughtToZero ==
    /\ ret.op = "input_mouseHide"
    /\ input_mouseCounter = 0
    /\ input_mouseTimer = MOUSE_HIDE

\* An event of the mouse or a call of input_mouseShow has just happened.
MouseCameBack ==
    \/ ev.type = "SDL_MOUSEMOTION"
    \/ ret.op = "input_mouseShow"

\* C39: once input_mouseHide has brought the counter to 0 and is called no
\* more, the calls of input_update, whatever their dt, in the end hide the
\* cursor, unless an event of the mouse or a call of input_mouseShow comes
\* first; and no input_update hides the cursor while the counter is
\* above 0.
C39_CursorHiddenInTheEnd ==
    /\ ( <>[][~MouseHideStep]_vars )
          => ( CounterBroughtToZero ~> ( ~cursor \/ MouseCameBack ) )
    /\ [][ ( ev'.type = "input_update" /\ input_mouseCounter > 0 )
              => ( cursor => cursor' ) ]_vars
=============================================================================
